---- MODULE Spec2Model ----
(***************************************************************************)
(* Planning-poker rooms: the SQLite room store (src/db/index.js), the HTTP  *)
(* routes and the Socket.IO handlers (src/server.js), with the per-room     *)
(* grace timer and the periodic expiry sweep.  One step of the model is one *)
(* handler run to completion: the handlers are declared async but contain   *)
(* no await and the store is synchronous, so each runs atomically on the    *)
(* single event loop.                                                       *)
(***************************************************************************)
EXTENDS Integers, Sequences, FiniteSets, TLC

(* ------------------------------------------------------------------ *)
(* Program constants                                                   *)
(* ------------------------------------------------------------------ *)
MAX_ROOM_CAPACITY == 10
ROOM_DURATION_MS == 600000
CLEANUP_INTERVAL_MS == 60000
DISCONNECT_GRACE_PERIOD_MS == 30000
MS_PER_SEC == 1000

(* ------------------------------------------------------------------ *)
(* Bounds of the model                                                 *)
(* ------------------------------------------------------------------ *)
MaxSockets == 2
MaxSessions == 2
MaxShortSteps == 2
MaxLongSteps == 1
RegisterBy == 0
\* The process starts StartPhaseMs milliseconds into a second of the
\* wall clock: the instants of the model count from the process start.
StartPhaseMs == 500

Names == {"Ana", "Bob"}
NoName == ""

(* ------------------------------------------------------------------ *)
(* JavaScript values carried by a vote: null, a number, a string, and  *)
(* the boolean of previousVote.                                        *)
(* ------------------------------------------------------------------ *)
Null == [t |-> "null", n |-> 0, s |-> ""]
Num(n) == [t |-> "num", n |-> n, s |-> ""]
Str(s) == [t |-> "str", n |-> 0, s |-> s]
Bool(b) == [t |-> "bool", n |-> IF b THEN 1 ELSE 0, s |-> ""]

\* The card values a client submits in the model: numeric cards, a label
\* that is no number, and a label whose text is a number.
PointInputs == {Num(1), Num(2), Num(5), Num(8), Str("?"), Str("2")}

\* String(n) for the numbers of the model.
NumberText ==
  [n \in 0..9 |-> CASE n = 0 -> "0" [] n = 1 -> "1" [] n = 2 -> "2" [] n = 3 -> "3" [] n = 4 -> "4"
                     [] n = 5 -> "5" [] n = 6 -> "6" [] n = 7 -> "7" [] n = 8 -> "8" [] OTHER -> "9"]

\* String(point) of updateMemberPoint / addMember: the TEXT column value.
JsString(v) == IF v.t = "num" THEN NumberText[v.n] ELSE v.s

\* Number(text) is NaN unless the text is a numeral; the empty text is 0.
JsIsNaNNumber(text) == ~(text = "" \/ \E n \in DOMAIN NumberText : NumberText[n] = text)

JsNumber(text) == IF text = "" THEN 0 ELSE CHOOSE n \in DOMAIN NumberText : NumberText[n] = text

\* The stored point column: SQL NULL or a TEXT.
SqlNull == [null |-> TRUE, text |-> ""]
SqlText(x) == [null |-> FALSE, text |-> x]

\* point !== null ? String(point) : null
EncodePoint(v) == IF v.t = "null" THEN SqlNull ELSE SqlText(JsString(v))

\* A read that hands the TEXT column back as it is stored.
DecodeAsText(col) == IF col.null THEN Null ELSE Str(col.text)

\* m.point !== null ? (isNaN(Number(m.point)) ? m.point : Number(m.point)) : null
DecodePoint(col) ==
  IF col.null THEN Null
  ELSE IF JsIsNaNNumber(col.text) THEN Str(col.text) ELSE Num(JsNumber(col.text))

(* ------------------------------------------------------------------ *)
(* State                                                               *)
(* ------------------------------------------------------------------ *)
VARIABLES
  now,          \* Date.now(), in milliseconds since the process started
  rooms,        \* table rooms, by room id
  members,      \* table room_members, in insertion order
  nextMemberId, \* member ids handed out so far (randomUUID: never reused)
  sessions,     \* the express-session store: session id -> rooms map
  socks,        \* the Socket.IO connections
  pending,      \* the pendingDisconnections map: entries [key, at]
  zero,         \* history: per room, since when and why it has no connected member
  kv,           \* table kv_store of the key-value module: rows [key, value]
  kvLog,        \* history: the set, del and clear calls made on it, in order
  kvRet         \* what the last call on it returned

vars == <<now, rooms, members, nextMemberId, sessions, socks, pending, zero, kv, kvLog, kvRet>>
appVars == <<now, rooms, members, nextMemberId, sessions, socks, pending, zero>>
kvVars == <<kv, kvLog, kvRet>>

\* The state a handler runs on; out collects what the handler emits, in
\* order (events to connections and channels, HTTP responses).
Cur ==
  [now |-> now, rooms |-> rooms, members |-> members, nextMemberId |-> nextMemberId,
   sessions |-> sessions, socks |-> socks, pending |-> pending, out |-> <<>>]

NoToken == 0
\* randomUUID() of POST /register: one token per room, told apart by the room.
AdminToken(r) == r

NoRoom == [st |-> "free", adminToken |-> NoToken, revealed |-> FALSE, createdAt |-> 0]
NoMember == [id |-> 0, room |-> 0, sessionId |-> 0, socketId |-> 0, name |-> NoName,
             point |-> SqlNull, connected |-> FALSE]
NoSession == [has |-> FALSE, name |-> NoName, isAdmin |-> FALSE, adminToken |-> NoToken]

(* ------------------------------------------------------------------ *)
(* The room store (src/db/index.js), as operators on the two tables    *)
(* ------------------------------------------------------------------ *)
FirstRow(rows) == IF rows = <<>> THEN NoMember ELSE Head(rows)

\* selectMembersByRoomStmt: the room's rows, oldest first.
MembersOf(ms, r) == SelectSeq(ms, LAMBDA m : m.room = r)

\* A lookup that still finds the row of a deleted room.
RoomWasCreated(rs, r) == r \in DOMAIN rs /\ rs[r].st # "free"

\* getRoom(roomId) !== null
RoomExists(rs, r) == r \in DOMAIN rs /\ rs[r].st = "live"

\* Date.now() at instant t of the model.
DateNow(t) == StartPhaseMs + t

\* room.createdAt of getRoom: created_at * 1000
CreatedAtMs(rs, r) == rs[r].createdAt * MS_PER_SEC

\* createRoom: now = Math.floor(Date.now() / 1000)
CreateRoom(rs, r, token, t) ==
  [rs EXCEPT ![r] = [st |-> "live", adminToken |-> token, revealed |-> FALSE,
                     createdAt |-> DateNow(t) \div MS_PER_SEC]]

GetMemberBySession(ms, r, sid) ==
  FirstRow(SelectSeq(ms, LAMBDA m : m.room = r /\ sid # 0 /\ m.sessionId = sid))

\* A lookup by name that finds nobody.
GetNobodyByName(ms, r, name) == NoMember

GetMemberByName(ms, r, name) ==
  FirstRow(SelectSeq(ms, LAMBDA m : m.room = r /\ m.name = name))

\* A lookup that takes the room's oldest member, whatever the connection.
GetMemberInRoom(ms, r, k) == FirstRow(MembersOf(ms, r))

GetMemberBySocket(ms, r, k) ==
  FirstRow(SelectSeq(ms, LAMBDA m : m.room = r /\ k # 0 /\ m.socketId = k))

\* A table without the UNIQUE(room_id, name) constraint.
AddMemberUnconstrained(ms, r, name) == FALSE

\* UNIQUE(room_id, name): the insert of addMember fails on a taken name.
AddMemberRejected(ms, r, name) == \E i \in DOMAIN ms : ms[i].room = r /\ ms[i].name = name

AddMember(ms, r, id, sid, k, name, connected) ==
  IF AddMemberRejected(ms, r, name) THEN ms
  ELSE Append(ms, [id |-> id, room |-> r, sessionId |-> sid, socketId |-> k, name |-> name,
                   point |-> EncodePoint(Null), connected |-> connected])

\* An update that does not reach the table.
KeepMemberPoint(ms, id, v) == ms

UpdateMemberPoint(ms, id, v) ==
  [i \in DOMAIN ms |-> IF ms[i].id = id THEN [ms[i] EXCEPT !.point = EncodePoint(v)] ELSE ms[i]]

\* deleteMember(memberId) in the place of the update: the row goes.
DeleteMember(ms, id, k, connected) == SelectSeq(ms, LAMBDA m : m.id # id)

UpdateMemberConnection(ms, id, k, connected) ==
  [i \in DOMAIN ms |-> IF ms[i].id = id
                        THEN [ms[i] EXCEPT !.socketId = k, !.connected = connected]
                        ELSE ms[i]]

\* A rebinding that rewrites the whole row, vote included.
ReplaceMemberSocket(ms, id, k, sid, connected) ==
  [i \in DOMAIN ms |-> IF ms[i].id = id
                        THEN [ms[i] EXCEPT !.socketId = k, !.sessionId = sid,
                                           !.connected = connected, !.point = SqlNull]
                        ELSE ms[i]]

\* A rebinding of the connection only: the session identifier stays.
UpdateSocketOnly(ms, id, k, sid, connected) ==
  [i \in DOMAIN ms |-> IF ms[i].id = id
                        THEN [ms[i] EXCEPT !.socketId = k, !.connected = connected]
                        ELSE ms[i]]

UpdateMemberSocket(ms, id, k, sid, connected) ==
  [i \in DOMAIN ms |-> IF ms[i].id = id
                        THEN [ms[i] EXCEPT !.socketId = k, !.sessionId = sid, !.connected = connected]
                        ELSE ms[i]]

\* A reset that clears the votes of the connected members only.
ResetConnectedMemberPoints(ms, r) ==
  [i \in DOMAIN ms |-> IF ms[i].room = r /\ ms[i].connected
                        THEN [ms[i] EXCEPT !.point = SqlNull] ELSE ms[i]]

ResetAllMemberPoints(ms, r) ==
  [i \in DOMAIN ms |-> IF ms[i].room = r THEN [ms[i] EXCEPT !.point = SqlNull] ELSE ms[i]]

\* An update that can only raise the flag.
RaiseRoomRevealed(rs, r, b) == [rs EXCEPT ![r].revealed = TRUE]

SetRoomRevealed(rs, r, b) == [rs EXCEPT ![r].revealed = b]

GetConnectedMemberCount(ms, r) == Len(SelectSeq(ms, LAMBDA m : m.room = r /\ m.connected))

\* deleteRoom: the row goes, and its members by ON DELETE CASCADE.
DeleteRoomRow(rs, r) == IF RoomExists(rs, r) THEN [rs EXCEPT ![r].st = "gone"] ELSE rs
\* A delete without ON DELETE CASCADE: the member rows stay.
KeepRoomMembers(ms, r) == ms

DeleteRoomMembers(ms, r) == SelectSeq(ms, LAMBDA m : m.room # r)

\* A query that selects nothing.
GetNoRooms(rs, t, maxAgeMs) == {}

\* getExpiredRooms(maxAgeMs) at instant t: created_at < floor((t - maxAgeMs) / 1000)
GetExpiredRooms(rs, t, maxAgeMs) ==
  {r \in DOMAIN rs : rs[r].st = "live" /\ rs[r].createdAt < ((DateNow(t) - maxAgeMs) \div MS_PER_SEC)}

\* isRoomExpired(room) at instant t
IsRoomExpired(rs, r, t) == DateNow(t) - CreatedAtMs(rs, r) > ROOM_DURATION_MS

(* ------------------------------------------------------------------ *)
(* Emitted events and HTTP responses                                   *)
(* ------------------------------------------------------------------ *)
NoAvg == [null |-> TRUE, tenths |-> 0]

\* One emission: typ is the event name (or the HTTP outcome), rcpt the
\* connections it is delivered to, chan the room channel it was sent to
\* (0: sent to one connection), sess the HTTP caller (0: realtime).
Event(typ, rcpt) ==
  [typ |-> typ, rcpt |-> rcpt, chan |-> 0, sess |-> 0, room |-> 0, members |-> <<>>,
   revealed |-> FALSE, tok |-> NoToken, avg |-> NoAvg, isAdmin |-> FALSE,
   isRec |-> FALSE, isNew |-> FALSE, prev |-> Null, name |-> NoName, msg |-> ""]

Emit(st, evs) == [st EXCEPT !.out = @ \o evs]

\* The connections currently in room channel r.
InChannel(sk, r) == {k \in DOMAIN sk : sk[k].st = "live" /\ r \in sk[k].chans}

\* A sanitizer that forgets the revealed flag: the leak the sanitization
\* property excludes.
UnsanitizedMember(m, revealed) ==
  [name |-> m.name, hasVoted |-> ~m.point.null, point |-> DecodePoint(m.point),
   connected |-> m.connected]

\* getSanitizedMembers(room)
SanitizedMember(m, revealed) ==
  [name |-> m.name, hasVoted |-> ~m.point.null,
   point |-> IF revealed THEN DecodePoint(m.point) ELSE Null, connected |-> m.connected]

GetSanitizedMembers(rs, ms, r) ==
  LET rows == MembersOf(ms, r)
  IN [i \in DOMAIN rows |-> SanitizedMember(rows[i], rs[r].revealed)]

\* The members of votes:revealed: name, point, hasVoted.
RevealedMember(m) == [name |-> m.name, point |-> DecodePoint(m.point), hasVoted |-> ~m.point.null]

RevealedMembers(ms, r) ==
  LET rows == MembersOf(ms, r) IN [i \in DOMAIN rows |-> RevealedMember(rows[i])]

\* The members of getRoom(roomId), as the HTTP views receive them.
RawMember(m) ==
  [id |-> m.id, sessionId |-> m.sessionId, socketId |-> m.socketId, name |-> m.name,
   point |-> DecodePoint(m.point), connected |-> m.connected]

RawMembers(ms, r) ==
  LET rows == MembersOf(ms, r) IN [i \in DOMAIN rows |-> RawMember(rows[i])]

\* numericVotes of votes:reveal: m.point !== null && typeof m.point === "number"
IsNumericVote(m) == DecodePoint(m.point).t = "num"

NumericVotes(ms, r) ==
  LET rows == SelectSeq(MembersOf(ms, r), IsNumericVote)
  IN [i \in DOMAIN rows |-> DecodePoint(rows[i].point).n]

RECURSIVE SeqSum(_)
SeqSum(q) == IF q = <<>> THEN 0 ELSE Head(q) + SeqSum(Tail(q))

\* A mean cut after the first decimal instead of rounded.
Truncated1(sum, count) == (10 * sum) \div count

\* (sum / count).toFixed(1), in tenths: the nearest tenth, a tie going up
\* (the votes of the model are not negative).
ToFixed1(sum, count) == (20 * sum + count) \div (2 * count)

Average(ms, r) ==
  LET votes == NumericVotes(ms, r)
  IN IF Len(votes) > 0 THEN [null |-> FALSE, tenths |-> ToFixed1(SeqSum(votes), Len(votes))]
     ELSE NoAvg

\* An error sent to every connection instead of the one that failed.
RoomErrorToAll(k, text) == [Event("room:error", DOMAIN socks) EXCEPT !.msg = text]

RoomError(k, text) == [Event("room:error", {k}) EXCEPT !.msg = text]

RoomExpired(sk, r) == [Event("room:expired", InChannel(sk, r)) EXCEPT !.chan = r, !.room = r]

\* An admin check that trusts any session entry for the room, without
\* comparing the token.
IsAnyMember(us, rs, r) == us.has

\* An admin check that nobody passes.
IsNeverAuthorized(us, rs, r) == FALSE

\* The admin check of votes:reveal, votes:reset and room:end:
\* !userSession?.isAdmin || userSession?.adminToken !== room.adminToken
IsAuthorized(us, rs, r) == us.has /\ us.isAdmin /\ us.adminToken = rs[r].adminToken

\* A capacity check that is off by one.
RoomIsOverFull(ms, r) == Len(MembersOf(ms, r)) > MAX_ROOM_CAPACITY

\* The capacity check of room:join and of POST /play/:id/join.
RoomIsFull(ms, r) == Len(MembersOf(ms, r)) >= MAX_ROOM_CAPACITY

DeleteRoom(st, r) ==
  [st EXCEPT !.rooms = DeleteRoomRow(@, r), !.members = DeleteRoomMembers(@, r)]

(* ------------------------------------------------------------------ *)
(* HTTP routes                                                         *)
(* ------------------------------------------------------------------ *)
HttpResponse(typ, s, r) == [Event(typ, {}) EXCEPT !.sess = s, !.room = r]

\* res.render(view, { room, ... }) with the room of db.getRoom(roomId).
Render(st, typ, s, r, text) ==
  [HttpResponse(typ, s, r) EXCEPT !.members = RawMembers(st.members, r),
                                  !.revealed = st.rooms[r].revealed,
                                  !.tok = st.rooms[r].adminToken,
                                  !.msg = text]

FreeRooms(rs) == {r \in DOMAIN rs : rs[r].st = "free"}
\* randomUUID() of createRoom: the next room id never used before.
NewRoomId(rs) == CHOOSE q \in FreeRooms(rs) : \A p \in FreeRooms(rs) : q <= p

\* POST /register
RegisterResult(st, s, name) ==
  LET r == NewRoomId(st.rooms)
  IN [st EXCEPT !.rooms = CreateRoom(@, r, AdminToken(r), st.now),
                !.sessions[s][r] = [has |-> TRUE, name |-> name, isAdmin |-> TRUE,
                                    adminToken |-> AdminToken(r)],
                !.out = <<HttpResponse("redirect:room", s, r)>>]

\* GET /play/:id
HttpGetResult(st, s, r) ==
  IF ~RoomExists(st.rooms, r)
  THEN Emit(st, <<HttpResponse("redirect:play", s, r)>>)
  ELSE IF IsRoomExpired(st.rooms, r, st.now)
  THEN Emit(DeleteRoom(st, r), <<HttpResponse("redirect:play", s, r)>>)
  ELSE Emit(st, <<Render(st, IF st.sessions[s][r].has THEN "render:room" ELSE "render:join", s, r, "")>>)

\* POST /play/:id/join, name being req.body.name?.trim()
HttpJoinResult(st, s, r, name) ==
  IF ~RoomExists(st.rooms, r)
  THEN Emit(st, <<HttpResponse("redirect:play", s, r)>>)
  ELSE IF IsRoomExpired(st.rooms, r, st.now)
  THEN Emit(DeleteRoom(st, r), <<HttpResponse("redirect:play", s, r)>>)
  ELSE IF name = NoName
  THEN Emit(st, <<Render(st, "render:join", s, r, "Please enter your name.")>>)
  ELSE IF GetMemberByName(st.members, r, name).id # 0
  THEN Emit(st, <<Render(st, "render:join", s, r, "This name is already taken in the room.")>>)
  ELSE IF RoomIsFull(st.members, r)
  THEN Emit(st, <<Render(st, "render:join", s, r, "Room is full. Maximum 10 users allowed.")>>)
  ELSE IF AddMemberRejected(st.members, r, name)
  THEN Emit(st, <<Render(st, "render:join", s, r, "This name is already taken in the room.")>>)
  ELSE [st EXCEPT !.members = AddMember(@, r, st.nextMemberId, s, 0, name, FALSE),
                  !.nextMemberId = @ + 1,
                  !.sessions[s][r] = [has |-> TRUE, name |-> name, isAdmin |-> FALSE,
                                      adminToken |-> NoToken],
                  !.out = <<HttpResponse("redirect:room", s, r)>>]

(* ------------------------------------------------------------------ *)
(* Socket.IO: connection, and the shared expiry check                  *)
(* ------------------------------------------------------------------ *)
NoSocket(rs) == [st |-> "new", sid |-> 0, hs |-> [r \in rs |-> NoSession], roomId |-> 0,
                 memberId |-> 0, userName |-> NoName, chans |-> {}]
ClosedSocket(rs) == [NoSocket(rs) EXCEPT !.st = "closed"]

NewSockets(sk) == {k \in DOMAIN sk : sk[k].st = "new"}
\* socket.id: the next connection id never used before.
NewSocketId(sk) == CHOOSE q \in NewSockets(sk) : \A p \in NewSockets(sk) : q <= p

\* io.on("connection"): the handshake loads the browser's session once
\* (express-socket.io-session), and socket.handshake.session is that copy.
ConnectResult(st, s) ==
  LET k == NewSocketId(st.socks)
  IN [st EXCEPT !.socks[k].st = "live", !.socks[k].sid = s, !.socks[k].hs = st.sessions[s]]

\* checkRoomExpiration(roomId): true when the room is missing or expired
CheckRoomExpiration(st, r) == ~RoomExists(st.rooms, r) \/ IsRoomExpired(st.rooms, r, st.now)

\* ... and its effect when it returns true, followed by the handler's
\* reply: an expired room is announced to its channel, then deleted.
FailExpired(st, k, r) ==
  Emit(DeleteRoom(st, r),
       (IF RoomExists(st.rooms, r) THEN <<RoomExpired(st.socks, r)>> ELSE <<>>)
       \o <<RoomError(k, "Room not found or has expired.")>>)

(* ------------------------------------------------------------------ *)
(* The key-value store (src/unnamed/part_000)                          *)
(* ------------------------------------------------------------------ *)
\* The keys and values (both TEXT) the store is called with.
KvKeys == {"a", "b"}
KvValues == {"x", "y"}

\* An insert that leaves the row of a key already present as it is.
InsertOrIgnore(t, k, v) ==
  IF \E row \in t : row.key = k THEN t ELSE t \cup {[key |-> k, value |-> v]}

\* insertStmt: INSERT ... ON CONFLICT(key) DO UPDATE SET value = excluded.value
InsertStmt(t, k, v) == {row \in t : row.key # k} \cup {[key |-> k, value |-> v]}

\* selectStmt, existsStmt: the rows WHERE key = ?
SelectStmt(t, k) == {row \in t : row.key = k}

\* deleteStmt: DELETE FROM kv_store WHERE key = ?
DeleteStmt(t, k) == t \ SelectStmt(t, k)

\* get: row ? row.value : null
GetValue(t, k) ==
  IF SelectStmt(t, k) = {} THEN Null ELSE Str((CHOOSE row \in SelectStmt(t, k) : TRUE).value)

\* del: deleteStmt.run(key).changes
DelChanges(t, k) == Cardinality(SelectStmt(t, k))

\* clear: clearStmt.run().changes
ClearChanges(t) == Cardinality(t)

\* exists: row ? 1 : 0
ExistsValue(t, k) == IF SelectStmt(t, k) # {} THEN 1 ELSE 0

\* The table as CREATE TABLE IF NOT EXISTS leaves a new database file.
KvInit == kv = {} /\ kvLog = <<>> /\ kvRet = Null

(* ------------------------------------------------------------------ *)
(* The pendingDisconnections map                                       *)
(* ------------------------------------------------------------------ *)
\* `${roomId}:${sessionIdentifier}`, the key room:join cancels
JoinKey(r, sid) == [kind |-> "session", room |-> r, sess |-> sid]
\* `room:${roomId}`, the key the disconnect handler sets
RoomKey(r) == [kind |-> "room", room |-> r, sess |-> 0]

PendingHas(pd, key) == \E e \in pd : e.key = key
\* clearTimeout + delete of the entry under key
PendingDelete(pd, key) == {e \in pd : e.key # key}
\* A set that keeps a timer already pending under the key.
PendingSetOnce(pd, key, t) ==
  IF PendingHas(pd, key) THEN pd
  ELSE pd \cup {[key |-> key, at |-> t + DISCONNECT_GRACE_PERIOD_MS]}

\* set(key, setTimeout(..., DISCONNECT_GRACE_PERIOD_MS)) at instant t
\* A set that registers the new timer next to the one already pending.
PendingAdd(pd, key, t) == pd \cup {[key |-> key, at |-> t + DISCONNECT_GRACE_PERIOD_MS]}

PendingSet(pd, key, t) ==
  PendingDelete(pd, key) \cup {[key |-> key, at |-> t + DISCONNECT_GRACE_PERIOD_MS]}

(* ------------------------------------------------------------------ *)
(* room:join                                                           *)
(* ------------------------------------------------------------------ *)
\* A resolution that never finds an existing member.
ResolveNobody(ms, r, sid, userName) == NoMember

\* existingMember: by session identifier, else by name
ResolveMember(ms, r, sid, userName) ==
  LET bySession == GetMemberBySession(ms, r, sid)
  IN IF bySession.id = 0 /\ userName # NoName THEN GetMemberByName(ms, r, userName) ELSE bySession

\* isReconnecting of an existing member
IsReconnecting(existing) == existing.connected \/ existing.socketId # 0

\* previousVote: freshRoom.revealed ? member.point : member.point !== null
PreviousVote(revealed, point) == IF revealed THEN point ELSE Bool(point.t # "null")

\* A join that never asks for a name.
NeverNeedsName(us, name) == FALSE

\* The needsJoin branch: if (userSession) ... else if (!name)
NeedsName(us, name) == ~us.has /\ name = NoName

JoinResult(st, k, r, name, tok) ==
  LET sid == st.socks[k].sid
      us == st.socks[k].hs[r]
      userName == IF us.has THEN us.name ELSE name
      userAdminToken == IF us.has THEN us.adminToken ELSE tok
      existing == ResolveMember(st.members, r, sid, userName)
      isRec == existing.id # 0 /\ IsReconnecting(existing)
      ms1 == IF existing.id # 0
             THEN UpdateMemberSocket(st.members, existing.id, k, sid, TRUE)
             ELSE AddMember(st.members, r, st.nextMemberId, sid, k, userName, TRUE)
      memberId == IF existing.id # 0 THEN existing.id ELSE st.nextMemberId
      memberPoint == IF existing.id # 0 THEN DecodePoint(existing.point) ELSE Null
      isAdmin == userAdminToken = st.rooms[r].adminToken
      entry == [has |-> TRUE, name |-> userName, isAdmin |-> isAdmin,
                adminToken |-> IF isAdmin THEN userAdminToken ELSE NoToken]
      hs1 == IF existing.id = 0 /\ ~us.has THEN [st.socks[k].hs EXCEPT ![r] = entry] ELSE st.socks[k].hs
      sk1 == [st.socks EXCEPT ![k].hs = hs1, ![k].chans = @ \cup {r}, ![k].roomId = r,
                              ![k].userName = userName, ![k].memberId = memberId]
      cancelled == [st EXCEPT !.pending = PendingDelete(@, JoinKey(r, sid))]
      joined == [Event("room:joined", {k}) EXCEPT
                   !.room = r, !.members = GetSanitizedMembers(st.rooms, ms1, r),
                   !.revealed = st.rooms[r].revealed, !.isAdmin = isAdmin, !.name = userName,
                   !.isRec = isRec, !.isNew = ~us.has,
                   !.prev = PreviousVote(st.rooms[r].revealed, memberPoint)]
      notify == [Event(IF isRec THEN "room:memberReconnected" ELSE "room:memberJoined",
                       InChannel(sk1, r) \ {k})
                   EXCEPT !.chan = r, !.room = r, !.name = userName,
                          !.members = GetSanitizedMembers(st.rooms, ms1, r)]
  IN IF CheckRoomExpiration(st, r)
     THEN FailExpired(st, k, r)
     ELSE IF NeedsName(us, name)
     THEN Emit(st, <<[Event("room:needsJoin", {k}) EXCEPT !.room = r]>>)
     ELSE IF existing.id = 0 /\ RoomIsFull(st.members, r)
     THEN Emit(cancelled, <<RoomError(k, "Room is full. Maximum 10 users allowed.")>>)
     ELSE IF existing.id = 0 /\ AddMemberRejected(st.members, r, userName)
     THEN Emit(cancelled, <<RoomError(k, "This name is already taken in the room.")>>)
     ELSE [cancelled EXCEPT
             !.members = ms1,
             !.nextMemberId = IF existing.id = 0 THEN @ + 1 ELSE @,
             !.socks = sk1,
             !.sessions = IF existing.id = 0 /\ ~us.has THEN [@ EXCEPT ![sid] = hs1] ELSE @,
             !.out = <<joined, notify>>]

(* ------------------------------------------------------------------ *)
(* vote:submit, votes:reveal, votes:reset, room:end                    *)
(* ------------------------------------------------------------------ *)
VoteResult(st, k, r, v) ==
  LET member == GetMemberBySocket(st.members, r, k)
      ms1 == UpdateMemberPoint(st.members, member.id, v)
  IN IF CheckRoomExpiration(st, r)
     THEN FailExpired(st, k, r)
     ELSE IF member.id = 0
     THEN Emit(st, <<RoomError(k, "You are not a member of this room.")>>)
     ELSE [st EXCEPT !.members = ms1,
                     !.out = <<[Event("vote:updated", InChannel(st.socks, r)) EXCEPT
                                  !.chan = r, !.room = r, !.name = member.name,
                                  !.members = GetSanitizedMembers(st.rooms, ms1, r)]>>]

RevealResult(st, k, r) ==
  IF CheckRoomExpiration(st, r)
  THEN FailExpired(st, k, r)
  ELSE IF ~IsAuthorized(st.socks[k].hs[r], st.rooms, r)
  THEN Emit(st, <<RoomError(k, "Only the admin can reveal votes.")>>)
  ELSE [st EXCEPT !.rooms = SetRoomRevealed(@, r, TRUE),
                  !.out = <<[Event("votes:revealed", InChannel(st.socks, r)) EXCEPT
                               !.chan = r, !.room = r, !.revealed = TRUE,
                               !.members = RevealedMembers(st.members, r),
                               !.avg = Average(st.members, r)]>>]

ResetResult(st, k, r) ==
  LET ms1 == ResetAllMemberPoints(st.members, r)
      rs1 == SetRoomRevealed(st.rooms, r, FALSE)
  IN IF CheckRoomExpiration(st, r)
     THEN FailExpired(st, k, r)
     ELSE IF ~IsAuthorized(st.socks[k].hs[r], st.rooms, r)
     THEN Emit(st, <<RoomError(k, "Only the admin can reset votes.")>>)
     ELSE [st EXCEPT !.members = ms1, !.rooms = rs1,
                     !.out = <<[Event("votes:reset", InChannel(st.socks, r)) EXCEPT
                                  !.chan = r, !.room = r,
                                  !.members = GetSanitizedMembers(rs1, ms1, r)]>>]

\* room:end looks the room up with db.getRoom and does not call
\* checkRoomExpiration.
EndResult(st, k, r) ==
  IF ~RoomExists(st.rooms, r)
  THEN Emit(st, <<RoomError(k, "Room not found or has already ended.")>>)
  ELSE IF ~IsAuthorized(st.socks[k].hs[r], st.rooms, r)
  THEN Emit(st, <<RoomError(k, "Only the admin can end the session.")>>)
  ELSE Emit(DeleteRoom(st, r),
            <<[Event("room:ended", InChannel(st.socks, r)) EXCEPT !.chan = r, !.room = r]>>)

(* ------------------------------------------------------------------ *)
(* disconnect, the grace timer, the sweep, the clock                   *)
(* ------------------------------------------------------------------ *)
\* The connection has left its channels when "disconnect" is handled, and
\* nothing reads the socket object afterwards.
DisconnectResult(st, k) ==
  LET r == st.socks[k].roomId
      sk1 == [st.socks EXCEPT ![k] = ClosedSocket(DOMAIN st.rooms)]
      bound == r # 0 /\ st.socks[k].memberId # 0
      ms1 == IF bound THEN UpdateMemberConnection(st.members, st.socks[k].memberId, 0, FALSE)
             ELSE st.members
      told == bound /\ RoomExists(st.rooms, r)
  IN [st EXCEPT
        !.socks = sk1,
        !.members = ms1,
        !.out = IF told
                THEN <<[Event("room:memberDisconnected", InChannel(sk1, r)) EXCEPT
                          !.chan = r, !.room = r, !.name = st.socks[k].userName,
                          !.members = GetSanitizedMembers(st.rooms, ms1, r)]>>
                ELSE <<>>,
        !.pending = IF told /\ GetConnectedMemberCount(ms1, r) = 0
                    THEN PendingSet(@, RoomKey(r), st.now)
                    ELSE @]

\* The setTimeout callback of the disconnect handler.
TimerResult(st, e) ==
  LET r == e.key.room
      after == IF GetConnectedMemberCount(st.members, r) = 0 THEN DeleteRoom(st, r) ELSE st
  IN [after EXCEPT !.pending = PendingDelete(@, e.key)]

\* One tick of startCleanupInterval: each expired room is announced to
\* its channel and deleted.
RECURSIVE SweepRooms(_, _)
SweepRooms(st, ids) ==
  IF ids = {} THEN st
  ELSE LET r == CHOOSE q \in ids : \A p \in ids : q <= p
       IN SweepRooms(DeleteRoom(Emit(st, <<RoomExpired(st.socks, r)>>), r), ids \ {r})

SweepResult(st) == SweepRooms(st, GetExpiredRooms(st.rooms, st.now, ROOM_DURATION_MS))

\* The instants of the cleanup ticks: setInterval(..., CLEANUP_INTERVAL_MS)
\* started with the process.
IsTick(t) == t > 0 /\ t % CLEANUP_INTERVAL_MS = 0
\* The last tick before instant t (0: none).
LastTickBefore(t) == ((t - 1) \div CLEANUP_INTERVAL_MS) * CLEANUP_INTERVAL_MS

\* History: a living room without connected member is without one since
\* its creation, or since the disconnect that marked the last one.
NoZero == [since |-> 0, by |-> "none"]
ZeroAfter(res) ==
  [r \in DOMAIN rooms |->
     IF ~RoomExists(res.rooms, r) \/ GetConnectedMemberCount(res.members, r) > 0 THEN NoZero
     ELSE IF ~RoomExists(rooms, r) THEN [since |-> now, by |-> "created"]
     ELSE IF GetConnectedMemberCount(members, r) > 0 THEN [since |-> now, by |-> "disconnect"]
     ELSE zero[r]]

Apply(res) ==
  /\ zero' = ZeroAfter(res)
  /\ now' = res.now
  /\ rooms' = res.rooms
  /\ members' = res.members
  /\ nextMemberId' = res.nextMemberId
  /\ sessions' = res.sessions
  /\ socks' = res.socks
  /\ pending' = res.pending
  /\ UNCHANGED kvVars

Live(k) == socks[k].st = "live"

\* Rooms are registered in the first RegisterBy milliseconds.
Register(s, name) == now <= RegisterBy /\ FreeRooms(rooms) # {} /\ Apply(RegisterResult(Cur, s, name))
HttpGet(s, r) == Apply(HttpGetResult(Cur, s, r))
HttpJoin(s, r, name) == Apply(HttpJoinResult(Cur, s, r, name))
Connect(s) == NewSockets(socks) # {} /\ Apply(ConnectResult(Cur, s))
Join(k, r, name, tok) == Live(k) /\ Apply(JoinResult(Cur, k, r, name, tok))
Vote(k, r, v) == Live(k) /\ Apply(VoteResult(Cur, k, r, v))
Reveal(k, r) == Live(k) /\ Apply(RevealResult(Cur, k, r))
Reset(k, r) == Live(k) /\ Apply(ResetResult(Cur, k, r))
End(k, r) == Live(k) /\ Apply(EndResult(Cur, k, r))
Disconnect(k) == Live(k) /\ Apply(DisconnectResult(Cur, k))
\* A timer runs once its delay has passed.
TimerFire(e) == e \in pending /\ e.at <= now /\ Apply(TimerResult(Cur, e))
Sweep == IsTick(now) /\ Apply(SweepResult(Cur))

\* Time passes by d without any handler running: no grace timer falls
\* due strictly inside the interval, and every cleanup tick passed over
\* (the one of this instant included) finds no expired room, so that
\* passing over it changes nothing.
ShortSteps(t) == (t % ROOM_DURATION_MS) \div DISCONNECT_GRACE_PERIOD_MS
LongSteps(t) == t \div ROOM_DURATION_MS

Advance(d) ==
  /\ \/ d = DISCONNECT_GRACE_PERIOD_MS /\ ShortSteps(now) < MaxShortSteps
     \/ d = ROOM_DURATION_MS /\ LongSteps(now) < MaxLongSteps
  /\ \A e \in pending : now + d <= e.at
  /\ GetExpiredRooms(rooms, LastTickBefore(now + d), ROOM_DURATION_MS) = {}
  /\ now' = now + d
  /\ UNCHANGED <<rooms, members, nextMemberId, sessions, socks, pending, zero>>
  /\ UNCHANGED kvVars

(* ------------------------------------------------------------------ *)
(* The system                                                          *)
(* ------------------------------------------------------------------ *)
\* An empty store, no connection, nRooms room ids and nSockets
\* connection ids still to be handed out.
InitOver(nRooms, nSessions, nSockets) ==
  /\ now = 0
  /\ rooms = [r \in 1..nRooms |-> NoRoom]
  /\ members = <<>>
  /\ nextMemberId = 1
  /\ sessions = [s \in 1..nSessions |-> [r \in 1..nRooms |-> NoSession]]
  /\ socks = [k \in 1..nSockets |-> NoSocket(1..nRooms)]
  /\ pending = {}
  /\ zero = [r \in 1..nRooms |-> NoZero]
  /\ KvInit

Tokens == {NoToken} \cup {AdminToken(r) : r \in DOMAIN rooms}

\* creators register rooms under the name admin; names are the names
\* joiners type, points the cards they submit, steps the amounts by which
\* the clock is advanced.
NextOver(creators, admin, names, points, steps) ==
  \/ \E s \in creators : Register(s, admin)
  \/ \E s \in DOMAIN sessions, r \in DOMAIN rooms : HttpGet(s, r)
  \/ \E s \in DOMAIN sessions, r \in DOMAIN rooms, name \in names \cup {NoName} : HttpJoin(s, r, name)
  \/ \E s \in DOMAIN sessions : Connect(s)
  \/ \E k \in DOMAIN socks, r \in DOMAIN rooms, name \in names \cup {NoName}, tok \in Tokens :
        Join(k, r, name, tok)
  \/ \E k \in DOMAIN socks, r \in DOMAIN rooms, v \in points : Vote(k, r, v)
  \/ \E k \in DOMAIN socks, r \in DOMAIN rooms : Reveal(k, r)
  \/ \E k \in DOMAIN socks, r \in DOMAIN rooms : Reset(k, r)
  \/ \E k \in DOMAIN socks, r \in DOMAIN rooms : End(k, r)
  \/ \E k \in DOMAIN socks : Disconnect(k)
  \/ \E e \in pending : TimerFire(e)
  \/ Sweep
  \/ \E d \in steps : Advance(d)

Init == InitOver(1, MaxSessions, MaxSockets)
Next == NextOver({1}, "Ana", Names, {Num(5)}, {DISCONNECT_GRACE_PERIOD_MS, ROOM_DURATION_MS})
Spec == Init /\ [][Next]_vars

(* ------------------------------------------------------------------ *)
(* Rooms that are already populated                                    *)
(* ------------------------------------------------------------------ *)
\* Browsers other than the sessions of the model joined before the first
\* step: their members are in the store, and they do nothing further.
FillerNames == <<"F1", "F2", "F3", "F4", "F5", "F6", "F7", "F8", "F9">>
OutsideSession(i) == MaxSessions + i

\* The state after session 1 registered room 1 and the members rows
\* were added to it, all within the first millisecond.
InitCrowd(nSessions, nSockets, rows, timers, since) ==
  /\ now = 0
  /\ rooms = <<CreateRoom(<<NoRoom>>, 1, AdminToken(1), 0)[1]>>
  /\ members = rows
  /\ nextMemberId = Len(rows) + 1
  /\ sessions = [s \in 1..nSessions |->
                   <<IF s = 1 THEN [has |-> TRUE, name |-> "Ana", isAdmin |-> TRUE,
                                    adminToken |-> AdminToken(1)]
                     ELSE NoSession>>]
  /\ socks = [k \in 1..nSockets |-> NoSocket({1})]
  /\ pending = timers
  /\ zero = <<since>>
  /\ KvInit

\* Room 1 one member short of its capacity: the others joined over HTTP
\* (POST /play/:id/join) and have not connected.
HttpJoined(i) ==
  [id |-> i, room |-> 1, sessionId |-> OutsideSession(i), socketId |-> 0,
   name |-> FillerNames[i], point |-> EncodePoint(Null), connected |-> FALSE]

InitFull ==
  \/ InitOver(1, MaxSessions, MaxSockets)
  \/ InitCrowd(MaxSessions, MaxSockets, [i \in 1..(MAX_ROOM_CAPACITY - 1) |-> HttpJoined(i)],
                {}, [since |-> 0, by |-> "created"])

NextFull == NextOver({1}, "Ana", Names, {Num(5)}, {DISCONNECT_GRACE_PERIOD_MS})
SpecFull == InitFull /\ [][NextFull]_vars

\* Room 1 with MaxVoters members who joined, voted (or not) and
\* disconnected: the last disconnect started the grace timer.
MaxVoters == 2
StoredVotes == {EncodePoint(v) : v \in PointInputs \cup {Null}}

Voted(i, col) ==
  [id |-> i, room |-> 1, sessionId |-> OutsideSession(i), socketId |-> 0,
   name |-> FillerNames[i], point |-> col, connected |-> FALSE]

InitVotes ==
  \/ InitOver(1, 1, 1)
  \/ \E cols \in [1..MaxVoters -> StoredVotes] :
        InitCrowd(1, 1, [i \in 1..MaxVoters |-> Voted(i, cols[i])],
                  {[key |-> RoomKey(1), at |-> DISCONNECT_GRACE_PERIOD_MS]},
                  [since |-> 0, by |-> "disconnect"])

NextVotes == NextOver({1}, "Ana", {"Ana"}, PointInputs, {DISCONNECT_GRACE_PERIOD_MS})
SpecVotes == InitVotes /\ [][NextVotes]_vars

\* The event loop left to itself: the clock runs on to the next instant
\* at which something is scheduled, a grace timer falling due or a
\* cleanup tick that finds an expired room.  MaxTicks cleanup ticks are
\* looked ahead.
MaxTicks == 12
Scheduled ==
  {e.at : e \in pending}
  \cup {k * CLEANUP_INTERVAL_MS : k \in {j \in 1..MaxTicks :
          GetExpiredRooms(rooms, j * CLEANUP_INTERVAL_MS, ROOM_DURATION_MS) # {}}}

Elapse ==
  /\ \A t \in Scheduled : t > now
  /\ Scheduled # {}
  /\ now' = CHOOSE t \in Scheduled : \A u \in Scheduled : t <= u
  /\ UNCHANGED <<rooms, members, nextMemberId, sessions, socks, pending, zero>>
  /\ UNCHANGED kvVars

\* The browsers and connections of Spec under an event loop that keeps
\* running: time passes, due timers fire, the cleanup interval ticks.
NextSweep ==
  \/ NextOver({1}, "Ana", Names, {Num(5)}, {DISCONNECT_GRACE_PERIOD_MS})
  \/ Elapse
SpecSweep ==
  /\ InitOver(1, MaxSessions, MaxSockets) /\ [][NextSweep]_vars
  /\ WF_vars(Elapse) /\ WF_vars(Sweep) /\ WF_vars(\E e \in pending : TimerFire(e))

\* Joiners typing names that differ in case only (the name column has the
\* default BINARY collation).
CaseNames == {"Ana", "ana"}
NextNames == NextOver({1}, "Ana", CaseNames, {Num(5)}, {DISCONNECT_GRACE_PERIOD_MS})
SpecNames == Init /\ [][NextNames]_vars

(* ------------------------------------------------------------------ *)
(* A sweep during which the store fails                                *)
(* ------------------------------------------------------------------ *)
\* One tick of startCleanupInterval in which db.deleteRoom throws for
\* room bad: the try block encloses the whole for loop, so the exception
\* leaves the loop and is logged by the catch. The rooms before bad are
\* announced and deleted, bad has been announced, the rest is not
\* visited.
RECURSIVE SweepRoomsUntil(_, _, _)
SweepRoomsUntil(st, ids, bad) ==
  IF ids = {} THEN st
  ELSE LET r == CHOOSE q \in ids : \A p \in ids : q <= p
           told == Emit(st, <<RoomExpired(st.socks, r)>>)
       IN IF r = bad THEN told
          ELSE SweepRoomsUntil(DeleteRoom(told, r), ids \ {r}, bad)

SweepFailResult(st, bad) ==
  SweepRoomsUntil(st, GetExpiredRooms(st.rooms, st.now, ROOM_DURATION_MS), bad)

SweepFailing(bad) ==
  /\ IsTick(now)
  /\ bad \in GetExpiredRooms(rooms, now, ROOM_DURATION_MS)
  /\ Apply(SweepFailResult(Cur, bad))

\* Two rooms, one browser, one connection, and a store that may fail
\* during a sweep.
MaxStoreRooms == 2
NextStore ==
  \/ NextOver({1}, "Ana", {"Ana"}, {Num(5)}, {DISCONNECT_GRACE_PERIOD_MS, ROOM_DURATION_MS})
  \/ \E bad \in DOMAIN rooms : SweepFailing(bad)
SpecStore == InitOver(MaxStoreRooms, 1, 1) /\ [][NextStore]_vars

(* ------------------------------------------------------------------ *)
(* Calls on the key-value store                                        *)
(* ------------------------------------------------------------------ *)
\* At most MaxKvOps set, del and clear calls are followed.
MaxKvOps == 3

KvSet(k, v) ==
  /\ Len(kvLog) < MaxKvOps
  /\ kv' = InsertStmt(kv, k, v)
  /\ kvRet' = Str("OK")
  /\ kvLog' = Append(kvLog, [op |-> "set", key |-> k, value |-> v])
  /\ UNCHANGED appVars

KvGet(k) ==
  /\ kvRet' = GetValue(kv, k)
  /\ UNCHANGED <<kv, kvLog>>
  /\ UNCHANGED appVars

KvDel(k) ==
  /\ Len(kvLog) < MaxKvOps
  /\ kv' = DeleteStmt(kv, k)
  /\ kvRet' = Num(DelChanges(kv, k))
  /\ kvLog' = Append(kvLog, [op |-> "del", key |-> k, value |-> ""])
  /\ UNCHANGED appVars

KvClear ==
  /\ Len(kvLog) < MaxKvOps
  /\ kv' = {}
  /\ kvRet' = Num(ClearChanges(kv))
  /\ kvLog' = Append(kvLog, [op |-> "clear", key |-> "", value |-> ""])
  /\ UNCHANGED appVars

KvExists(k) ==
  /\ kvRet' = Num(ExistsValue(kv, k))
  /\ UNCHANGED <<kv, kvLog>>
  /\ UNCHANGED appVars

NextKv ==
  \/ \E k \in KvKeys, v \in KvValues : KvSet(k, v)
  \/ \E k \in KvKeys : KvGet(k)
  \/ \E k \in KvKeys : KvDel(k)
  \/ KvClear
  \/ \E k \in KvKeys : KvExists(k)
SpecKv == InitOver(1, 1, 1) /\ [][NextKv]_vars

(* ------------------------------------------------------------------ *)
(* What the handlers would do in the current state                     *)
(* ------------------------------------------------------------------ *)
LiveSockets == {k \in DOMAIN socks : Live(k)}
RoomIds == DOMAIN rooms
NameInputs == Names \cup {NoName}

\* The outcome of every realtime handler, for every live connection and
\* every payload.
SocketResults ==
  {JoinResult(Cur, x[1], x[2], x[3], x[4]) : x \in LiveSockets \X RoomIds \X NameInputs \X Tokens}
  \cup {VoteResult(Cur, x[1], x[2], x[3]) : x \in LiveSockets \X RoomIds \X PointInputs}
  \cup {RevealResult(Cur, x[1], x[2]) : x \in LiveSockets \X RoomIds}
  \cup {ResetResult(Cur, x[1], x[2]) : x \in LiveSockets \X RoomIds}
  \cup {EndResult(Cur, x[1], x[2]) : x \in LiveSockets \X RoomIds}
  \cup {DisconnectResult(Cur, k) : k \in LiveSockets}

\* The handler left everything as it was and sent one room:error, to
\* connection k alone.
RefusedTo(res, k) ==
  /\ [res EXCEPT !.out = <<>>] = Cur
  /\ Len(res.out) = 1
  /\ res.out[1].typ = "room:error"
  /\ res.out[1].rcpt = {k}
  /\ res.out[1].chan = 0

(* ------------------------------------------------------------------ *)
(* Properties                                                          *)
(* ------------------------------------------------------------------ *)

\* C2: an event emitted while its room is not revealed (the flag as it
\* stands when the handler emits) carries point = null for every member,
\* and the previousVote of a room:joined sent then is a boolean.
C2_SanitizedWhileHidden ==
  \A res \in SocketResults : \A i \in DOMAIN res.out :
    LET ev == res.out[i]
    IN (RoomExists(res.rooms, ev.room) /\ ~res.rooms[ev.room].revealed) =>
         /\ \A j \in DOMAIN ev.members : ev.members[j].point = Null
         /\ ev.typ = "room:joined" => ev.prev.t = "bool"

\* A member who voted in a hidden round rejoins: room:joined shows the
\* vote as cast, with previousVote true.
C2_Witness ==
  \E res \in SocketResults : \E i \in DOMAIN res.out :
    LET ev == res.out[i]
    IN /\ ev.typ = "room:joined"
       /\ ~res.rooms[ev.room].revealed
       /\ ev.prev = Bool(TRUE)
       /\ \E j \in DOMAIN ev.members : ev.members[j].hasVoted

\* C3: votes:reveal, votes:reset and room:end from a connection whose
\* admin token for the room is not the room's adminToken are answered by
\* one room:error to that connection alone and change nothing (reveal
\* and reset on a room within its lifetime: their expiry check comes
\* first; room:end on any existing room).
C3_UnauthorizedRefused ==
  \A k \in LiveSockets, r \in RoomIds :
    (RoomExists(rooms, r) /\ socks[k].hs[r].adminToken # rooms[r].adminToken) =>
      /\ ~IsRoomExpired(rooms, r, now) =>
            /\ RefusedTo(RevealResult(Cur, k, r), k)
            /\ RefusedTo(ResetResult(Cur, k, r), k)
      /\ RefusedTo(EndResult(Cur, k, r), k)

\* A joined member who is not the admin, in a room with a vote to reveal.
C3_Witness ==
  \E k \in LiveSockets, r \in RoomIds :
    /\ RoomExists(rooms, r) /\ ~IsRoomExpired(rooms, r, now)
    /\ socks[k].hs[r].has /\ ~socks[k].hs[r].isAdmin
    /\ GetMemberBySocket(members, r, k).id # 0
    /\ ~GetMemberBySocket(members, r, k).point.null
    /\ RevealResult(Cur, k, r).out[1].msg = "Only the admin can reveal votes."

\* The member row with the given id.
MemberById(ms, id) == FirstRow(SelectSeq(ms, LAMBDA m : m.id = id))

\* The member room:join resolves connection k to, with payload name.
Resolved(k, r, name) ==
  ResolveMember(members, r, socks[k].sid,
                IF socks[k].hs[r].has THEN socks[k].hs[r].name ELSE name)

\* C4: a member whose connection dropped and who rejoins before the
\* grace timer fires keeps the point it had, is not listed twice (the
\* room has as many members as before), and the room is still there once
\* the timer has fired; no timer firing while a member is connected
\* deletes the room.
C4_RejoinInGrace ==
  \A r \in RoomIds : RoomExists(rooms, r) =>
    /\ \A e \in pending : (e.key = RoomKey(r) /\ GetConnectedMemberCount(members, r) > 0) =>
          /\ RoomExists(TimerResult(Cur, e).rooms, r)
          /\ TimerResult(Cur, e).members = members
    /\ \A k \in LiveSockets, name \in NameInputs, e \in pending :
          LET old == Resolved(k, r, name)
              rejoined == JoinResult(Cur, k, r, name, NoToken)
              fired == TimerResult(rejoined, e)
          IN (/\ e.key = RoomKey(r)
              /\ old.id # 0 /\ ~old.connected
              /\ ~IsRoomExpired(rooms, r, now)
              /\ socks[k].hs[r].has \/ name # NoName) =>
               /\ rejoined.out[1].typ = "room:joined"
               /\ Len(MembersOf(rejoined.members, r)) = Len(MembersOf(members, r))
               /\ MemberById(rejoined.members, old.id).point = old.point
               /\ MemberById(rejoined.members, old.id).connected
               /\ RoomExists(fired.rooms, r)
               /\ fired.members = rejoined.members

\* The only member of a room, holding a vote, is connected again while
\* the timer its disconnect started is due.
C4_Witness ==
  \E r \in RoomIds, e \in pending :
    /\ RoomExists(rooms, r)
    /\ e.key = RoomKey(r) /\ e.at <= now
    /\ Len(MembersOf(members, r)) = 1
    /\ MembersOf(members, r)[1].connected
    /\ ~MembersOf(members, r)[1].point.null

\* C5 as stated: no living room has been without a connected member for
\* longer than the grace period.
C5_DeletedAfterGrace ==
  \A r \in RoomIds :
    (RoomExists(rooms, r) /\ zero[r].by # "none") =>
      now - zero[r].since <= DISCONNECT_GRACE_PERIOD_MS

\* C5, amended: a room is deleted for abandonment when its grace timer
\* fires and finds no connected member.  Every disconnect that leaves the
\* room without connected member starts that timer afresh, 30 s ahead, so
\* a room emptied by a disconnect always has one pending; a member
\* connected when it fires prevents the deletion.  A room in which nobody
\* has been connected yet has no timer.
C5_AbandonedByTimer ==
  \A r \in RoomIds : RoomExists(rooms, r) =>
    /\ zero[r].by = "disconnect" =>
          \E e \in pending : /\ e.key = RoomKey(r)
                             /\ now <= e.at
                             /\ zero[r].since + DISCONNECT_GRACE_PERIOD_MS <= e.at
    /\ zero[r].by = "created" => ~PendingHas(pending, RoomKey(r))
    /\ \A e \in pending : e.key = RoomKey(r) =>
          (RoomExists(TimerResult(Cur, e).rooms, r) <=> GetConnectedMemberCount(members, r) > 0)
    /\ \A k \in LiveSockets :
          LET left == DisconnectResult(Cur, k)
          IN (/\ socks[k].roomId = r /\ socks[k].memberId # 0
              /\ GetConnectedMemberCount(left.members, r) = 0) =>
               [key |-> RoomKey(r), at |-> now + DISCONNECT_GRACE_PERIOD_MS] \in left.pending

\* A room emptied by a disconnect whose timer is due and deletes it.
C5_Witness ==
  \E r \in RoomIds, e \in pending :
    /\ RoomExists(rooms, r)
    /\ zero[r].by = "disconnect"
    /\ e.key = RoomKey(r) /\ e.at = now
    /\ now = zero[r].since + DISCONNECT_GRACE_PERIOD_MS
    /\ ~RoomExists(TimerResult(Cur, e).rooms, r)

\* The reply to connection k (or HTTP session s) says the room is gone,
\* the room is deleted, and nothing else than its expiry was announced.
ExpiredReply(res, k, r) ==
  /\ ~RoomExists(res.rooms, r)
  /\ \A i \in DOMAIN res.out : res.out[i].typ \in {"room:expired", "room:error"}
  /\ \E i \in DOMAIN res.out :
        /\ res.out[i].typ = "room:error" /\ res.out[i].rcpt = {k}
        /\ res.out[i].msg \in {"Room not found or has expired.",
                                "Room not found or has already ended."}

ExpiredRedirect(res, r) ==
  /\ ~RoomExists(res.rooms, r)
  /\ Len(res.out) = 1 /\ res.out[1].typ = "redirect:play"

\* C6: whatever operation touches a room past its lifetime, on whatever
\* surface, deletes the room and answers not-found/expired (an error to the
\* connection, a redirect to the browser) instead of being performed.
C6_ExpiredOnEverySurface ==
  \A r \in RoomIds : (RoomExists(rooms, r) /\ IsRoomExpired(rooms, r, now)) =>
    /\ \A s \in DOMAIN sessions : ExpiredRedirect(HttpGetResult(Cur, s, r), r)
    /\ \A s \in DOMAIN sessions, name \in NameInputs :
          ExpiredRedirect(HttpJoinResult(Cur, s, r, name), r)
    /\ \A k \in LiveSockets :
          /\ \A name \in NameInputs, tok \in Tokens : ExpiredReply(JoinResult(Cur, k, r, name, tok), k, r)
          /\ \A v \in PointInputs : ExpiredReply(VoteResult(Cur, k, r, v), k, r)
          /\ ExpiredReply(RevealResult(Cur, k, r), k, r)
          /\ ExpiredReply(ResetResult(Cur, k, r), k, r)
          /\ ExpiredReply(EndResult(Cur, k, r), k, r)

\* C9: an authorized votes:reset leaves the room not revealed and every
\* member without point, and broadcasts members without vote; a second
\* reset right after it yields the same stored state and the same
\* broadcast.
C9_ResetIdempotent ==
  \A k \in LiveSockets, r \in RoomIds :
    (/\ RoomExists(rooms, r) /\ ~IsRoomExpired(rooms, r, now)
     /\ IsAuthorized(socks[k].hs[r], rooms, r)) =>
      LET once == ResetResult(Cur, k, r)
          twice == ResetResult([once EXCEPT !.out = <<>>], k, r)
          rows == MembersOf(once.members, r)
      IN /\ ~once.rooms[r].revealed
         /\ \A i \in DOMAIN rows : rows[i].point = SqlNull
         /\ Len(rows) = Len(MembersOf(members, r))
         /\ Len(once.out) = 1 /\ once.out[1].typ = "votes:reset"
         /\ \A i \in DOMAIN once.out[1].members :
               once.out[1].members[i].point = Null /\ ~once.out[1].members[i].hasVoted
         /\ twice.rooms = once.rooms
         /\ twice.members = once.members
         /\ twice.out = once.out

\* The admin can reset a revealed room in which a disconnected member
\* holds a vote.
C9_Witness ==
  \E k \in LiveSockets, r \in RoomIds :
    /\ RoomExists(rooms, r) /\ ~IsRoomExpired(rooms, r, now)
    /\ IsAuthorized(socks[k].hs[r], rooms, r)
    /\ rooms[r].revealed
    /\ \E i \in DOMAIN members : members[i].room = r /\ ~members[i].point.null /\ ~members[i].connected

\* A join attempt: over HTTP by session sess, or by room:join on
\* connection sock (of session sess).
Joiners ==
  {[via |-> "http", sess |-> s, sock |-> 0] : s \in DOMAIN sessions}
  \cup {[via |-> "socket", sess |-> socks[k].sid, sock |-> k] : k \in LiveSockets}

JoinBy(st, j, r, name) ==
  IF j.via = "http" THEN HttpJoinResult([st EXCEPT !.out = <<>>], j.sess, r, name)
  ELSE JoinResult([st EXCEPT !.out = <<>>], j.sock, r, name, NoToken)

JoinSucceeded(res, j) ==
  IF j.via = "http" THEN res.out[1].typ = "redirect:room"
  ELSE res.out[1].typ = "room:joined" /\ res.out[1].rcpt = {j.sock}

JoinDuplicate(res, j) ==
  /\ Len(res.out) = 1
  /\ res.out[1].msg = "This name is already taken in the room."
  /\ res.out[1].typ = IF j.via = "http" THEN "render:join" ELSE "room:error"

\* Two browsers, neither known to room r yet, about to join it under a
\* name nobody holds there.
TwoNewcomers(a, b, r, name) ==
  /\ RoomExists(rooms, r) /\ ~IsRoomExpired(rooms, r, now)
  /\ a.sess # b.sess
  /\ \A j \in {a, b} : /\ GetMemberBySession(members, r, j.sess).id = 0
                       /\ j.via = "socket" => ~socks[j.sock].hs[r].has
  /\ GetMemberByName(members, r, name).id = 0
  /\ ~RoomIsFull(members, r)

C1_Capacity ==
  \A r \in RoomIds : Len(MembersOf(members, r)) <= MAX_ROOM_CAPACITY

\* A room filled to its capacity by a join, where a further join under a
\* free name is refused on both surfaces.
C1_Witness ==
  \E r \in RoomIds, k \in LiveSockets, s \in DOMAIN sessions :
    /\ RoomExists(rooms, r) /\ ~IsRoomExpired(rooms, r, now)
    /\ Len(MembersOf(members, r)) = MAX_ROOM_CAPACITY
    /\ GetMemberByName(members, r, "Ana").id # 0
    /\ GetMemberByName(members, r, "Bob").id = 0
    /\ HttpJoinResult(Cur, s, r, "Bob").out[1].msg = "Room is full. Maximum 10 users allowed."
    /\ ~socks[k].hs[r].has
    /\ JoinResult(Cur, k, r, "Bob", NoToken).out[1].msg = "Room is full. Maximum 10 users allowed."

RECURSIVE PointSum(_, _)
\* The sum of the numbers at the positions ids of a broadcast member list.
PointSum(list, ids) ==
  IF ids = {} THEN 0
  ELSE LET i == CHOOSE j \in ids : TRUE IN list[i].point.n + PointSum(list, ids \ {i})

\* C7: a successful votes:reveal broadcasts one entry per member with
\* the member's point (null exactly for those without vote), and an
\* average that is null when no broadcast point is a number and otherwise
\* the tenth nearest to the mean of the points that are numbers (a tie
\* going up); points that are null or text do not count.
C7_RevealAverage ==
  \A k \in LiveSockets, r \in RoomIds :
    (/\ RoomExists(rooms, r) /\ ~IsRoomExpired(rooms, r, now)
     /\ IsAuthorized(socks[k].hs[r], rooms, r)) =>
      LET res == RevealResult(Cur, k, r)
          ev == res.out[1]
          rows == MembersOf(members, r)
          nums == {i \in DOMAIN ev.members : ev.members[i].point.t = "num"}
          n == Cardinality(nums)
          sum == PointSum(ev.members, nums)
          t == ev.avg.tenths
      IN /\ Len(res.out) = 1 /\ ev.typ = "votes:revealed"
         /\ ev.rcpt = InChannel(socks, r)
         /\ res.rooms[r].revealed
         /\ res.members = members
         /\ Len(ev.members) = Len(rows)
         /\ \A i \in DOMAIN rows :
               /\ ev.members[i].name = rows[i].name
               /\ ev.members[i].hasVoted <=> ~rows[i].point.null
               /\ ev.members[i].point.t = "null" <=> rows[i].point.null
               /\ ev.members[i].point.t = "num" => NumberText[ev.members[i].point.n] = rows[i].point.text
               /\ ev.members[i].point.t = "str" => ev.members[i].point.s = rows[i].point.text
         /\ n = 0 => ev.avg.null
         /\ n > 0 => /\ ~ev.avg.null
                      /\ 2 * t * n - n <= 20 * sum
                      /\ 20 * sum < 2 * t * n + n

\* The admin reveals votes 5 and 8 and a member without vote: 6.5.
C7_Witness ==
  \E k \in LiveSockets, r \in RoomIds :
    /\ RoomExists(rooms, r) /\ ~IsRoomExpired(rooms, r, now)
    /\ IsAuthorized(socks[k].hs[r], rooms, r)
    /\ RevealResult(Cur, k, r).out[1].avg = [null |-> FALSE, tenths |-> 65]
    /\ \E i \in DOMAIN members : members[i].room = r /\ members[i].point.null
    /\ Len(NumericVotes(members, r)) = 2

\* C8: a vote v accepted for member m and revealed by the admin right
\* after is revealed as v, when v is a number and when v is a label that
\* is no number.
C8_VoteRoundTrip ==
  \A k \in LiveSockets, a \in LiveSockets, r \in RoomIds, v \in PointInputs :
    LET m == GetMemberBySocket(members, r, k)
        voted == VoteResult(Cur, k, r, v)
        shown == RevealResult([voted EXCEPT !.out = <<>>], a, r)
    IN (/\ RoomExists(rooms, r) /\ ~IsRoomExpired(rooms, r, now)
        /\ m.id # 0
        /\ IsAuthorized(socks[a].hs[r], rooms, r)
        /\ v.t = "num" \/ (v.t = "str" /\ JsIsNaNNumber(v.s))) =>
         /\ voted.out[1].typ = "vote:updated"
         /\ shown.out[1].typ = "votes:revealed"
         /\ \E i \in DOMAIN shown.out[1].members :
               shown.out[1].members[i].name = m.name
         /\ \A i \in DOMAIN shown.out[1].members :
               shown.out[1].members[i].name = m.name =>
                 /\ shown.out[1].members[i].point = v
                 /\ shown.out[1].members[i].hasVoted

\* The admin has voted "?" through vote:submit and revealed, and can
\* vote and reveal again.
C8_Witness ==
  \E k \in LiveSockets, r \in RoomIds :
    /\ RoomExists(rooms, r) /\ ~IsRoomExpired(rooms, r, now)
    /\ IsAuthorized(socks[k].hs[r], rooms, r)
    /\ GetMemberBySocket(members, r, k).name = "Ana"
    /\ GetMemberBySocket(members, r, k).point = EncodePoint(Str("?"))
    /\ rooms[r].revealed

\* C11: no two members of a room have the same name, names being
\* compared case-sensitively; addMember under a name present in the room
\* is rejected and returns the table as it was, and under any other name
\* (one differing in case only included) it adds one row.
C11_UniqueNames ==
  /\ \A i \in DOMAIN members, j \in DOMAIN members :
        (i # j /\ members[i].room = members[j].room) => members[i].name # members[j].name
  /\ \A r \in RoomIds, name \in CaseNames \cup Names, s \in DOMAIN sessions, c \in BOOLEAN :
        LET added == AddMember(members, r, nextMemberId, s, 0, name, c)
        IN IF \E i \in DOMAIN members : members[i].room = r /\ members[i].name = name
           THEN added = members
           ELSE /\ Len(added) = Len(members) + 1
                /\ added[Len(added)].name = name /\ added[Len(added)].room = r
                /\ SubSeq(added, 1, Len(members)) = members

\* A room holds both Ana and ana.
C11_Witness ==
  \E r \in RoomIds :
    /\ RoomExists(rooms, r)
    /\ GetMemberByName(members, r, "Ana").id # 0
    /\ GetMemberByName(members, r, "ana").id # 0
    /\ GetMemberByName(members, r, "Ana").id # GetMemberByName(members, r, "ana").id

\* Connection k presents, for room r, the token the room stores.
PresentsToken(k, r) == socks[k].hs[r].has /\ socks[k].hs[r].adminToken = rooms[r].adminToken

\* C12: in a room that lives on, revealed goes from false to true only by
\* the votes:reveal of a connection presenting the room's token, and from
\* true to false only by a votes:reset; every successful votes:reset leaves
\* it false.  No other step (join, vote, disconnect, timer, sweep, HTTP)
\* changes it.
C12_RevealedOnlyByAdmin ==
  [][\A r \in RoomIds : (RoomExists(rooms, r) /\ RoomExists(rooms', r)) =>
        /\ (~rooms[r].revealed /\ rooms'[r].revealed) =>
              \E k \in LiveSockets : PresentsToken(k, r) /\ Apply(RevealResult(Cur, k, r))
        /\ (rooms[r].revealed /\ ~rooms'[r].revealed) =>
              \E k \in LiveSockets : PresentsToken(k, r) /\ Apply(ResetResult(Cur, k, r))
        /\ \A k \in LiveSockets :
              (/\ Apply(ResetResult(Cur, k, r))
               /\ ResetResult(Cur, k, r).out[1].typ = "votes:reset") => ~rooms'[r].revealed
    ]_vars

\* A revealed room in which a connection that is not the admin's has
\* joined and voted.
C12_Witness ==
  \E r \in RoomIds, k \in LiveSockets :
    /\ RoomExists(rooms, r) /\ rooms[r].revealed
    /\ ~PresentsToken(k, r)
    /\ GetMemberBySocket(members, r, k).id # 0
    /\ ~GetMemberBySocket(members, r, k).point.null

\* What a cleanup tick does to room r when it runs now: the room and its
\* members are gone and room:expired went to the room's channel.
SweptNow(r) ==
  LET res == SweepResult(Cur)
  IN /\ ~RoomExists(res.rooms, r)
     /\ MembersOf(res.members, r) = <<>>
     /\ \E i \in DOMAIN res.out :
           /\ res.out[i].typ = "room:expired"
           /\ res.out[i].chan = r
           /\ res.out[i].rcpt = InChannel(socks, r)

JoinName(k, r, name) == IF socks[k].hs[r].has THEN socks[k].hs[r].name ELSE name

\* The identity (session, name) is that of a member of room r.
IsMemberOf(r, sid, name) ==
  \E i \in DOMAIN members :
    members[i].room = r /\ (members[i].sessionId = sid \/ members[i].name = name)

FullText == "Room is full. Maximum 10 users allowed."

\* C14: in a room with MAX_ROOM_CAPACITY members, a join by an identity
\* that is no member is refused with the capacity error, sent to the
\* joiner alone, and changes neither the room nor its members; a join
\* that resolves to an existing member succeeds and the room keeps its
\* MAX_ROOM_CAPACITY members.
C14_CapacityError ==
  \A r \in RoomIds :
    (/\ RoomExists(rooms, r) /\ ~IsRoomExpired(rooms, r, now)
     /\ Len(MembersOf(members, r)) = MAX_ROOM_CAPACITY) =>
      /\ \A k \in LiveSockets, name \in NameInputs, tok \in Tokens :
            LET res == JoinResult(Cur, k, r, name, tok)
                who == JoinName(k, r, name)
            IN who # NoName =>
                 IF IsMemberOf(r, socks[k].sid, who)
                 THEN /\ res.out[1].typ = "room:joined" /\ res.out[1].rcpt = {k}
                      /\ Len(MembersOf(res.members, r)) = MAX_ROOM_CAPACITY
                      /\ GetMemberBySocket(res.members, r, k).id # 0
                 ELSE /\ RefusedTo(res, k)
                      /\ res.out[1].msg = FullText
      /\ \A s \in DOMAIN sessions, name \in Names :
            LET res == HttpJoinResult(Cur, s, r, name)
            IN GetMemberByName(members, r, name).id = 0 =>
                 /\ [res EXCEPT !.out = <<>>] = Cur
                 /\ Len(res.out) = 1
                 /\ res.out[1].typ = "render:join" /\ res.out[1].sess = s
                 /\ res.out[1].msg = FullText

\* A full room with a connection that joined it as a member, which can
\* join again, and a connection of another browser that is refused.
C14_Witness ==
  \E r \in RoomIds, k1 \in LiveSockets, k2 \in LiveSockets :
    /\ RoomExists(rooms, r) /\ ~IsRoomExpired(rooms, r, now)
    /\ Len(MembersOf(members, r)) = MAX_ROOM_CAPACITY
    /\ GetMemberBySocket(members, r, k1).id # 0
    /\ JoinResult(Cur, k1, r, NoName, NoToken).out[1].typ = "room:joined"
    /\ ~IsMemberOf(r, socks[k2].sid, "Bob") /\ ~socks[k2].hs[r].has
    /\ JoinResult(Cur, k2, r, "Bob", NoToken).out[1].msg = FullText

\* C15: room:end from a connection that is admin by the room's token
\* broadcasts room:ended to the room's channel and, in the same step,
\* deletes the room with all its members, whatever the number of
\* connected members and whether or not a grace timer is pending.
C15_EndDeletesAtOnce ==
  \A k \in LiveSockets, r \in RoomIds :
    (RoomExists(rooms, r) /\ PresentsToken(k, r) /\ socks[k].hs[r].isAdmin) =>
      LET res == EndResult(Cur, k, r)
      IN /\ Len(res.out) = 1
         /\ res.out[1].typ = "room:ended"
         /\ res.out[1].chan = r
         /\ res.out[1].rcpt = InChannel(socks, r)
         /\ ~RoomExists(res.rooms, r)
         /\ \A i \in DOMAIN res.members : res.members[i].room # r

\* The admin can end a room that has two members, one of them connected,
\* while a grace timer of the room is pending.
C15_Witness ==
  \E k \in LiveSockets, r \in RoomIds :
    /\ RoomExists(rooms, r) /\ PresentsToken(k, r) /\ socks[k].hs[r].isAdmin
    /\ PendingHas(pending, RoomKey(r))
    /\ Len(MembersOf(members, r)) = 2
    /\ GetConnectedMemberCount(members, r) = 1
    /\ EndResult(Cur, k, r).out[1].typ = "room:ended"

\* The HTTP responses a browser session s can obtain for room r.
HttpResults(s, r) ==
  {HttpGetResult(Cur, s, r)} \cup {HttpJoinResult(Cur, s, r, n) : n \in NameInputs}

\* Session s holds the admin token of room r.
SessionIsAdmin(s, r) == sessions[s][r].has /\ sessions[s][r].adminToken = rooms[r].adminToken

\* C16: no realtime event carries a room's adminToken, and no view
\* rendered for a browser session that is not the room's admin is handed
\* the adminToken.
C16_TokenKeptFromNonAdmins ==
  /\ \A res \in SocketResults : \A i \in DOMAIN res.out : res.out[i].tok = NoToken
  /\ \A s \in DOMAIN sessions, r \in RoomIds :
       (RoomExists(rooms, r) /\ ~SessionIsAdmin(s, r)) =>
         \A res \in HttpResults(s, r) : \A i \in DOMAIN res.out : res.out[i].tok = NoToken

\* An HTTP outcome that renders a view with the room.
IsView(ev) == ev.typ \in {"render:join", "render:room"}

\* C17: the room handed to the join and room views is the sanitized
\* room: while revealed is false no member of it carries a vote value
\* (point is null).
C17_ViewsSanitized ==
  \A s \in DOMAIN sessions, r \in RoomIds :
    (RoomExists(rooms, r) /\ ~rooms[r].revealed) =>
      \A res \in HttpResults(s, r) : \A i \in DOMAIN res.out :
        IsView(res.out[i]) =>
          \A j \in DOMAIN res.out[i].members : res.out[i].members[j].point = Null

\* No member row of room r is bound to connection k.
BoundToNobody(k, r) == \A i \in DOMAIN members : ~(members[i].room = r /\ members[i].socketId = k)

NotAMemberText == "You are not a member of this room."

\* C18: in a room within its lifetime, a vote:submit from a connection
\* bound to no member of the room is answered by one room:error "You are
\* not a member of this room." to that connection alone; the store is
\* left as it was (no point changes) and no vote:updated is emitted.
C18_NonMemberVoteRefused ==
  \A k \in LiveSockets, r \in RoomIds, v \in PointInputs :
    (RoomExists(rooms, r) /\ ~IsRoomExpired(rooms, r, now) /\ BoundToNobody(k, r)) =>
      LET res == VoteResult(Cur, k, r, v)
      IN /\ RefusedTo(res, k)
         /\ res.out[1].msg = NotAMemberText
         /\ res.members = members
         /\ \A i \in DOMAIN res.out : res.out[i].typ # "vote:updated"

\* A connection that joined the room and then lost its member row to a
\* later join under the same name votes and is refused.
C18_Witness ==
  \E k \in LiveSockets, r \in RoomIds :
    /\ RoomExists(rooms, r) /\ ~IsRoomExpired(rooms, r, now) /\ BoundToNobody(k, r)
    /\ socks[k].roomId = r
    /\ MembersOf(members, r) # <<>>
    /\ VoteResult(Cur, k, r, Num(5)).out[1].msg = NotAMemberText

\* The admin token connection k presents to room:join: the one of its
\* session entry for the room when it has one, else the payload's.
PresentedToJoin(k, r, tok) == IF socks[k].hs[r].has THEN socks[k].hs[r].adminToken ELSE tok

\* C19: a connection is admin of a room exactly when the token it
\* presents equals the room's adminToken. room:joined carries isAdmin =
\* true exactly when the token presented to the join (session entry's,
\* else payload's) equals the stored one; votes:reveal, votes:reset and
\* room:end take effect exactly when the token of the connection's
\* session entry equals the stored one at that moment.
C19_AdminIffTokenMatches ==
  \A k \in LiveSockets, r \in RoomIds :
    /\ (RoomExists(rooms, r) /\ ~IsRoomExpired(rooms, r, now)) =>
         /\ \A n \in NameInputs, tok \in Tokens :
              LET res == JoinResult(Cur, k, r, n, tok)
              IN \A i \in DOMAIN res.out :
                   res.out[i].typ = "room:joined" =>
                     (res.out[i].isAdmin <=> PresentedToJoin(k, r, tok) = rooms[r].adminToken)
         /\ RevealResult(Cur, k, r).out[1].typ = "votes:revealed" <=> PresentsToken(k, r)
         /\ ResetResult(Cur, k, r).out[1].typ = "votes:reset" <=> PresentsToken(k, r)
    /\ RoomExists(rooms, r) =>
         (EndResult(Cur, k, r).out[1].typ = "room:ended" <=> PresentsToken(k, r))

\* One connection without a session entry joins with the room's token in
\* the payload and is told isAdmin = true, while another connection,
\* whose session entry holds the token, can reveal, and a third party's
\* reveal (an entry without the token) is refused.
C19_Witness ==
  \E k \in LiveSockets, j \in LiveSockets, r \in RoomIds :
    /\ RoomExists(rooms, r) /\ ~IsRoomExpired(rooms, r, now)
    /\ ~socks[k].hs[r].has
    /\ JoinResult(Cur, k, r, "Ana", AdminToken(r)).out[1].typ = "room:joined"
    /\ JoinResult(Cur, k, r, "Ana", AdminToken(r)).out[1].isAdmin
    /\ JoinResult(Cur, k, r, "Ana", NoToken).out[1].typ = "room:joined"
    /\ ~JoinResult(Cur, k, r, "Ana", NoToken).out[1].isAdmin
    /\ PresentsToken(j, r)
    /\ RevealResult(Cur, j, r).out[1].typ = "votes:revealed"
    /\ RevealResult(Cur, k, r).out[1].typ = "room:error"

\* Room r was created and has been deleted.
Deleted(r) == rooms[r].st = "gone"

\* The handler changed nothing and answered connection k alone with one
\* room:error of the given text.
NotFoundTo(res, k, text) == RefusedTo(res, k) /\ res.out[1].msg = text

\* The route changed nothing and redirected the browser to /play.
RedirectedToPlay(res) ==
  /\ [res EXCEPT !.out = <<>>] = Cur
  /\ Len(res.out) = 1
  /\ res.out[1].typ = "redirect:play"

\* Everything a deleted room answers: not-found to every realtime
\* operation, a redirect to /play to every HTTP access, nothing changed.
DeletedRoomAnswers(r) ==
  /\ \A i \in DOMAIN members : members[i].room # r
  /\ \A k \in LiveSockets :
       /\ \A n \in NameInputs, tok \in Tokens :
            NotFoundTo(JoinResult(Cur, k, r, n, tok), k, "Room not found or has expired.")
       /\ \A v \in PointInputs :
            NotFoundTo(VoteResult(Cur, k, r, v), k, "Room not found or has expired.")
       /\ NotFoundTo(RevealResult(Cur, k, r), k, "Room not found or has expired.")
       /\ NotFoundTo(ResetResult(Cur, k, r), k, "Room not found or has expired.")
       /\ NotFoundTo(EndResult(Cur, k, r), k, "Room not found or has already ended.")
  /\ \A s \in DOMAIN sessions : \A res \in HttpResults(s, r) : RedirectedToPlay(res)

\* C20: deletion is terminal. A deleted room has no member row; every
\* join, vote, reveal, reset and end naming it is answered with a
\* not-found room:error and every HTTP access with a redirect to /play,
\* all without changing anything; and no step of the program makes a
\* deleted room exist again or gives it a member.
C20_DeletionIsTerminal ==
  /\ [](\A r \in RoomIds : Deleted(r) => DeletedRoomAnswers(r))
  /\ [][\A r \in RoomIds :
          Deleted(r) => /\ rooms'[r].st = "gone"
                        /\ \A i \in DOMAIN members' : members'[i].room # r]_vars

\* A deleted room that a live connection is still subscribed to and for
\* which a browser session still holds an entry.
C20_Witness ==
  \E r \in RoomIds, k \in LiveSockets, s \in DOMAIN sessions :
    /\ Deleted(r)
    /\ r \in socks[k].chans
    /\ socks[k].roomId = r
    /\ sessions[s][r].has
    /\ EndResult(Cur, k, r).out[1].msg = "Room not found or has already ended."

\* The outcomes of the operations that check the lifetime of room r:
\* the four realtime handlers with the check, the two HTTP routes and
\* the periodic sweep.
ExpiryCheckingResults(r) ==
  {JoinResult(Cur, x[1], r, x[2], x[3]) : x \in LiveSockets \X NameInputs \X Tokens}
  \cup {VoteResult(Cur, x[1], r, x[2]) : x \in LiveSockets \X PointInputs}
  \cup {RevealResult(Cur, k, r) : k \in LiveSockets}
  \cup {ResetResult(Cur, k, r) : k \in LiveSockets}
  \cup UNION {HttpResults(s, r) : s \in DOMAIN sessions}
  \cup {SweepResult(Cur)}

\* The outcome announces the expiry of room r to the room's channel.
AnnouncesExpiry(res, r) ==
  \E i \in DOMAIN res.out :
    /\ res.out[i].typ = "room:expired"
    /\ res.out[i].chan = r
    /\ res.out[i].rcpt = InChannel(socks, r)

\* C21: every operation that deletes a room because its lifetime has
\* elapsed (room:join, vote:submit, votes:reveal, votes:reset, GET
\* /play/:id, POST /play/:id/join, the sweep) broadcasts room:expired to
\* the room's channel in the step that deletes it.
C21_ExpiryAnnounced ==
  \A r \in RoomIds :
    (RoomExists(rooms, r) /\ IsRoomExpired(rooms, r, now)) =>
      \A res \in ExpiryCheckingResults(r) :
        ~RoomExists(res.rooms, r) => AnnouncesExpiry(res, r)

\* A pending-deletion timer is registered for room r in the pending map pd.
TimerPendingFor(pd, r) == \E e \in pd : e.key.room = r

\* C22: after a successful join or reconnection to a room, by room:join
\* (room:joined is sent) or by POST /play/:id/join (the browser is sent
\* to the room), no pending-deletion timer remains for that room.
C22_JoinCancelsTimer ==
  \A r \in RoomIds :
    /\ \A k \in LiveSockets, n \in NameInputs, tok \in Tokens :
         LET res == JoinResult(Cur, k, r, n, tok)
         IN (\E i \in DOMAIN res.out : res.out[i].typ = "room:joined") =>
              ~TimerPendingFor(res.pending, r)
    /\ \A s \in DOMAIN sessions, n \in NameInputs :
         LET res == HttpJoinResult(Cur, s, r, n)
         IN (\E i \in DOMAIN res.out : res.out[i].typ = "redirect:room") =>
              ~TimerPendingFor(res.pending, r)

\* The timers registered for room r in the pending map pd.
TimersOf(pd, r) == {e \in pd : e.key.room = r}

\* The disconnect of connection k is announced to its room and leaves
\* the room without connected member.
DisconnectEmpties(k) ==
  LET res == DisconnectResult(Cur, k)
  IN /\ socks[k].roomId # 0
     /\ RoomExists(rooms, socks[k].roomId)
     /\ res.out # <<>>
     /\ GetConnectedMemberCount(res.members, socks[k].roomId) = 0

\* C23: there is never more than one pending-deletion timer per room
\* id, and a disconnect that leaves a room without connected member
\* leaves exactly one timer for it, due one grace period from now, in
\* place of any timer that was pending.
C23_OneTimerPerRoom ==
  /\ \A r \in RoomIds : Cardinality(TimersOf(pending, r)) <= 1
  /\ \A k \in LiveSockets :
       DisconnectEmpties(k) =>
         TimersOf(DisconnectResult(Cur, k).pending, socks[k].roomId)
           = {[key |-> RoomKey(socks[k].roomId), at |-> now + DISCONNECT_GRACE_PERIOD_MS]}

\* A timer is pending for the room, and the disconnect of its only
\* connected member replaces it by one that is due later.
C23_Witness ==
  \E k \in LiveSockets :
    /\ DisconnectEmpties(k)
    /\ \E e \in TimersOf(pending, socks[k].roomId) : e.at < now + DISCONNECT_GRACE_PERIOD_MS
    /\ Cardinality(TimersOf(DisconnectResult(Cur, k).pending, socks[k].roomId)) = 1

\* The member rows after the member with the given id was marked
\* disconnected and nothing else was touched.
MarkedDisconnected(ms, id) ==
  [i \in DOMAIN ms |-> IF ms[i].id = id
                        THEN [id |-> ms[i].id, room |-> ms[i].room, sessionId |-> ms[i].sessionId,
                              socketId |-> 0, name |-> ms[i].name, point |-> ms[i].point,
                              connected |-> FALSE]
                        ELSE ms[i]]

\* Every member row of room r in ms is still a row of ms2, with its id
\* and name.
MembersKept(ms, ms2, r) ==
  \A i \in DOMAIN ms :
    ms[i].room = r =>
      \E j \in DOMAIN ms2 : ms2[j].id = ms[i].id /\ ms2[j].room = r /\ ms2[j].name = ms[i].name

\* C24: the disconnect of a connection bound to a member sets that
\* member's connected flag to false and its connection identifier to
\* null and changes no other field, no other member and no room
\* (revealed flag, existence); when the room lives, the connections
\* left in its channel are sent room:memberDisconnected in that step.
\* And no step of the program removes a member from a room that lives
\* before and after it.
C24_DisconnectOnlyMarks ==
  /\ [](\A k \in LiveSockets :
          (socks[k].roomId # 0 /\ socks[k].memberId # 0) =>
            LET res == DisconnectResult(Cur, k)
                r == socks[k].roomId
            IN /\ res.members = MarkedDisconnected(members, socks[k].memberId)
               /\ res.rooms = rooms
               /\ RoomExists(rooms, r) =>
                    /\ Len(res.out) = 1
                    /\ res.out[1].typ = "room:memberDisconnected"
                    /\ res.out[1].rcpt = InChannel(socks, r) \ {k}
                    /\ res.out[1].chan = r)
  /\ [][\A r \in RoomIds :
          (RoomExists(rooms, r) /\ RoomExists(rooms', r)) => MembersKept(members, members', r)]_vars

\* A member that has voted disconnects while another connection is in
\* the room's channel and the room has two members.
C24_Witness ==
  \E k \in LiveSockets :
    /\ socks[k].roomId # 0 /\ socks[k].memberId # 0
    /\ RoomExists(rooms, socks[k].roomId)
    /\ InChannel(socks, socks[k].roomId) \ {k} # {}
    /\ Len(MembersOf(members, socks[k].roomId)) = 2
    /\ \E i \in DOMAIN members :
         /\ members[i].id = socks[k].memberId
         /\ members[i].connected /\ members[i].socketId = k
         /\ ~members[i].point.null
    /\ DisconnectResult(Cur, k).members # members

\* Connection k is live and is associated with member row m: it joined
\* m's room as m (socket.roomId, socket.memberId) and has not
\* disconnected.
AssociatedWith(k, m) ==
  Live(k) /\ socks[k].roomId = m.room /\ socks[k].memberId = m.id

\* C25: a member is marked connected, with a connection identifier, if
\* and only if some live connection is associated with it.
C25_ConnectedIffLiveConnection ==
  \A i \in DOMAIN members :
    (members[i].connected /\ members[i].socketId # 0)
      <=> \E k \in DOMAIN socks : AssociatedWith(k, members[i])

\* The member rows of room r that carry the session identifier of
\* connection k.
SessionRows(k, r) ==
  {i \in DOMAIN members : members[i].room = r /\ socks[k].sid # 0
                            /\ members[i].sessionId = socks[k].sid}

\* The names of the member rows in the set of indices.
RowNames(rows) == {members[i].name : i \in rows}

\* C26: in a room within its lifetime, a room:join from a connection
\* whose session identifier is that of a member of the room succeeds as
\* that member whatever name the payload carries, none included:
\* room:joined and the notification to the others name the member by
\* its stored name, and no member row is added.
C26_SessionRejoinKeepsName ==
  \A k \in LiveSockets, r \in RoomIds, n \in NameInputs, tok \in Tokens :
    (RoomExists(rooms, r) /\ ~IsRoomExpired(rooms, r, now) /\ SessionRows(k, r) # {}) =>
      LET res == JoinResult(Cur, k, r, n, tok)
      IN /\ Len(res.out) = 2
         /\ res.out[1].typ = "room:joined"
         /\ res.out[1].name \in RowNames(SessionRows(k, r))
         /\ res.out[2].name = res.out[1].name
         /\ Len(res.members) = Len(members)

\* C27: on a room within its lifetime, a room:join without a name from
\* a connection whose session has no entry for the room is answered by
\* one room:needsJoin to that connection, and nothing else changes: no
\* room, no member row, no channel membership, no timer.
C27_NeedsNameTouchesNothing ==
  \A k \in LiveSockets, r \in RoomIds, tok \in Tokens :
    (RoomExists(rooms, r) /\ ~IsRoomExpired(rooms, r, now) /\ ~socks[k].hs[r].has) =>
      LET res == JoinResult(Cur, k, r, NoName, tok)
      IN /\ Len(res.out) = 1
         /\ res.out[1].typ = "room:needsJoin"
         /\ res.out[1].rcpt = {k}
         /\ res.out[1].room = r
         /\ res.rooms = rooms
         /\ res.members = members
         /\ res.nextMemberId = nextMemberId
         /\ res.socks = socks
         /\ res.sessions = sessions
         /\ res.pending = pending

\* A connection without session entry asks to join, without a name, a
\* room that has a member and a pending timer.
C27_Witness ==
  \E k \in LiveSockets, r \in RoomIds :
    /\ RoomExists(rooms, r) /\ ~IsRoomExpired(rooms, r, now) /\ ~socks[k].hs[r].has
    /\ MembersOf(members, r) # <<>>
    /\ TimerPendingFor(pending, r)
    /\ JoinResult(Cur, k, r, NoName, NoToken).out[1].typ = "room:needsJoin"

\* The member rows after the row of room r named n was bound to
\* connection k and its session, every other field and row as before.
ReboundByName(k, r, n) ==
  [i \in DOMAIN members |->
     IF members[i].room = r /\ members[i].name = n
     THEN [id |-> members[i].id, room |-> r, sessionId |-> socks[k].sid, socketId |-> k,
           name |-> n, point |-> members[i].point, connected |-> TRUE]
     ELSE members[i]]

\* Room r lives, no member row of it carries the session of connection
\* k, and one carries the name n.
NameMatchesOnly(k, r, n) ==
  /\ RoomExists(rooms, r) /\ ~IsRoomExpired(rooms, r, now)
  /\ SessionRows(k, r) = {}
  /\ n # NoName
  /\ \E i \in DOMAIN members : members[i].room = r /\ members[i].name = n

\* The join of connection k succeeded as the existing member named n.
JoinedAsExisting(res, k, r, n) ==
  /\ res.members = ReboundByName(k, r, n)
  /\ res.nextMemberId = nextMemberId
  /\ res.out # <<>>
  /\ res.out[1].typ = "room:joined"
  /\ res.out[1].name = n

\* C28 as stated: whenever the session matches no member and the name
\* in the payload is that of an existing member, the join is resolved to
\* that member.
C28_PayloadNameRejoin ==
  \A k \in LiveSockets, r \in RoomIds, n \in Names, tok \in Tokens :
    NameMatchesOnly(k, r, n) => JoinedAsExisting(JoinResult(Cur, k, r, n, tok), k, r, n)

\* The name a join is made under: the name of the session's entry for
\* the room when there is one, else the payload's.
JoinNameOf(k, r, n) == IF socks[k].hs[r].has THEN socks[k].hs[r].name ELSE n

\* C28: a room:join whose session matches no member of the room and
\* whose join name (the session entry's name, else the payload's) is the
\* name of an existing member is resolved to that member: no row is
\* added, the row keeps its id, name and point, and its session and
\* connection identifiers become those of the joining connection.
C28_NameRejoin ==
  \A k \in LiveSockets, r \in RoomIds, n \in NameInputs, tok \in Tokens :
    NameMatchesOnly(k, r, JoinNameOf(k, r, n)) =>
      JoinedAsExisting(JoinResult(Cur, k, r, n, tok), k, r, JoinNameOf(k, r, n))

\* A connection of another session, without session entry, joins under
\* the name of a member that has voted.
C28_Witness ==
  \E k \in LiveSockets, r \in RoomIds, i \in DOMAIN members :
    /\ ~socks[k].hs[r].has
    /\ NameMatchesOnly(k, r, members[i].name)
    /\ members[i].room = r
    /\ ~members[i].point.null
    /\ members[i].sessionId # socks[k].sid
    /\ JoinResult(Cur, k, r, members[i].name, NoToken).members # members

\* Member row i is the member connection k is bound to, in a room
\* within its lifetime.
BoundTo(k, i) ==
  /\ members[i].room # 0 /\ RoomExists(rooms, members[i].room)
  /\ ~IsRoomExpired(rooms, members[i].room, now)
  /\ members[i].connected /\ members[i].socketId = k
  /\ socks[k].roomId = members[i].room /\ socks[k].memberId = members[i].id

\* The join was answered with room:joined and told the others with an
\* event of the given name, isReconnecting being the given flag.
JoinedAs(res, flag, told) ==
  /\ Len(res.out) = 2
  /\ res.out[1].typ = "room:joined"
  /\ res.out[1].isRec = flag
  /\ res.out[2].typ = told

\* C29: when the connection of a connected member is closed and the
\* member then joins again over another connection, room:joined carries
\* isReconnecting = true and the others receive room:memberReconnected;
\* a join that creates the member (its first live connection) carries
\* isReconnecting = false and the others receive room:memberJoined.
C29_ReconnectionDistinguished ==
  /\ \A k \in LiveSockets, j \in LiveSockets, i \in DOMAIN members,
        n \in NameInputs, tok \in Tokens :
       (k # j /\ BoundTo(k, i)) =>
         LET left == DisconnectResult(Cur, k)
             back == JoinResult([left EXCEPT !.out = <<>>], j, members[i].room, n, tok)
         IN (back.socks[j].memberId = members[i].id /\ Len(back.out) = 2) =>
              JoinedAs(back, TRUE, "room:memberReconnected")
  /\ \A k \in LiveSockets, r \in RoomIds, n \in NameInputs, tok \in Tokens :
       LET res == JoinResult(Cur, k, r, n, tok)
       IN Len(res.members) > Len(members) => JoinedAs(res, FALSE, "room:memberJoined")

\* The outcomes of every realtime operation connection k can issue.
ResultsOf(k) ==
  {JoinResult(Cur, k, x[1], x[2], x[3]) : x \in RoomIds \X NameInputs \X Tokens}
  \cup {VoteResult(Cur, k, x[1], x[2]) : x \in RoomIds \X PointInputs}
  \cup {RevealResult(Cur, k, r) : r \in RoomIds}
  \cup {ResetResult(Cur, k, r) : r \in RoomIds}
  \cup {EndResult(Cur, k, r) : r \in RoomIds}
  \cup {DisconnectResult(Cur, k)}

\* The outcomes of what runs without a connection issuing it: the grace
\* timers, the sweep and the HTTP routes.
BackgroundResults ==
  {TimerResult(Cur, e) : e \in pending} \cup {SweepResult(Cur)}
  \cup UNION {HttpResults(x[1], x[2]) : x \in (DOMAIN sessions) \X RoomIds}

\* C30: a room:error is only ever sent to the connection whose
\* operation failed: never to a room's channel, never to another
\* connection, and never by an operation no connection issued.
C30_ErrorsToIssuerOnly ==
  /\ \A k \in LiveSockets : \A res \in ResultsOf(k) : \A i \in DOMAIN res.out :
       res.out[i].typ = "room:error" => (res.out[i].rcpt = {k} /\ res.out[i].chan = 0)
  /\ \A res \in BackgroundResults : \A i \in DOMAIN res.out : res.out[i].typ # "room:error"

\* While another connection is in the room's channel, a connection that
\* is neither the admin nor bound to a member is refused a reveal and a
\* vote.
C30_Witness ==
  \E k \in LiveSockets, j \in LiveSockets, r \in RoomIds :
    /\ k # j
    /\ RoomExists(rooms, r) /\ ~IsRoomExpired(rooms, r, now)
    /\ j \in InChannel(socks, r)
    /\ RevealResult(Cur, k, r).out[1].typ = "room:error"
    /\ RevealResult(Cur, k, r).out[1].msg = "Only the admin can reveal votes."
    /\ VoteResult(Cur, k, r, Num(5)).out[1].typ = "room:error"
    /\ VoteResult(Cur, k, r, Num(5)).out[1].msg = NotAMemberText

\* C31: when the store fails on one room during a sweep tick, every
\* other room that is expired at that tick is still announced to its
\* channel and deleted by that tick.
C31_SweepSurvivesFailure ==
  IsTick(now) =>
    \A bad \in GetExpiredRooms(rooms, now, ROOM_DURATION_MS) :
      \A r \in GetExpiredRooms(rooms, now, ROOM_DURATION_MS) \ {bad} :
        LET res == SweepFailResult(Cur, bad)
        IN AnnouncesExpiry(res, r) /\ ~RoomExists(res.rooms, r)

\* The rooms the per-operation check isRoomExpired finds expired now.
ExpiredByCheck == {r \in RoomIds : RoomExists(rooms, r) /\ IsRoomExpired(rooms, r, now)}

\* C32: at every instant getExpiredRooms(ROOM_DURATION_MS) returns
\* exactly the rooms for which isRoomExpired is true.
C32_SweepAgreesWithCheck ==
  GetExpiredRooms(rooms, now, ROOM_DURATION_MS) = ExpiredByCheck

\* No room is older than the process: now, the time since the process
\* started, bounds the real age of every room from above.
NoRoomOlderThan(age) == now <= age

\* C33: a room whose real age is at most ROOM_DURATION_MS is not
\* expired for isRoomExpired, is not returned by getExpiredRooms, and is
\* deleted by no operation that checks the lifetime.
C33_NoEarlyExpiry ==
  NoRoomOlderThan(ROOM_DURATION_MS) =>
    \A r \in RoomIds :
      RoomExists(rooms, r) =>
        /\ ~IsRoomExpired(rooms, r, now)
        /\ r \notin GetExpiredRooms(rooms, now, ROOM_DURATION_MS)
        /\ \A res \in ExpiryCheckingResults(r) : RoomExists(res.rooms, r)

\* Connection k is bound to a member row of room r, and connection a
\* is admin of r by its token; r is within its lifetime.
VoterAndAdmin(k, a, r) ==
  /\ RoomExists(rooms, r) /\ ~IsRoomExpired(rooms, r, now)
  /\ ~BoundToNobody(k, r)
  /\ PresentsToken(a, r) /\ socks[a].hs[r].isAdmin

\* The broadcast ev shows, member by member, who has voted in the rows
\* of room r in the table ms.
ShowsWhoVoted(ev, ms, r) ==
  LET rows == MembersOf(ms, r)
  IN /\ Len(ev.members) = Len(rows)
     /\ \A i \in DOMAIN rows :
          /\ ev.members[i].name = rows[i].name
          /\ ev.members[i].hasVoted <=> ~rows[i].point.null

\* The broadcast ev shows, member by member, the points stored in the
\* rows of room r in the table ms.
ShowsPoints(ev, ms, r) ==
  LET rows == MembersOf(ms, r)
  IN /\ Len(ev.members) = Len(rows)
     /\ \A i \in DOMAIN rows :
          /\ ev.members[i].name = rows[i].name
          /\ ev.members[i].point = DecodePoint(rows[i].point)

\* C34: a vote and the reveal that follows it broadcast to the room's
\* channel in the order in which they were applied to the store:
\* vote:updated, issued in the step that stores the vote and showing
\* the store right after it (the voter has voted), then votes:revealed,
\* showing the store right after the reveal, the vote included; the
\* reveal emits no vote:updated.
C34_BroadcastInStoreOrder ==
  \A k \in LiveSockets, a \in LiveSockets, r \in RoomIds, v \in PointInputs :
    VoterAndAdmin(k, a, r) =>
      LET voted == VoteResult(Cur, k, r, v)
          shown == RevealResult([voted EXCEPT !.out = <<>>], a, r)
          sent == voted.out \o shown.out
      IN /\ Len(sent) = 2
         /\ sent[1].typ = "vote:updated" /\ sent[1].chan = r
         /\ sent[2].typ = "votes:revealed" /\ sent[2].chan = r
         /\ sent[1].rcpt = InChannel(socks, r) /\ sent[2].rcpt = InChannel(socks, r)
         /\ ShowsWhoVoted(sent[1], voted.members, r)
         /\ \E i \in DOMAIN voted.members :
              /\ voted.members[i].room = r /\ voted.members[i].socketId = k
              /\ voted.members[i].point = EncodePoint(v)
         /\ ShowsPoints(sent[2], shown.members, r)
         /\ shown.members = voted.members
         /\ shown.rooms[r].revealed

\* A member votes and the admin, on another connection, reveals, both
\* in the channel of a room whose other member has a stored vote.
C34_Witness ==
  \E k \in LiveSockets, a \in LiveSockets, r \in RoomIds :
    /\ k # a
    /\ VoterAndAdmin(k, a, r)
    /\ {k, a} \subseteq InChannel(socks, r)
    /\ ~rooms[r].revealed
    /\ \E i \in DOMAIN members :
         members[i].room = r /\ members[i].socketId = k /\ members[i].point.null
    /\ VoteResult(Cur, k, r, Num(8)).out[1].typ = "vote:updated"

\* C35: while a room is revealed, a vote:submit changes no stored
\* point: the points of the last votes:revealed stay the stored ones
\* until votes:reset.
C35_RevealedRoundFrozen ==
  \A k \in LiveSockets, r \in RoomIds, v \in PointInputs :
    (RoomExists(rooms, r) /\ ~IsRoomExpired(rooms, r, now) /\ rooms[r].revealed) =>
      VoteResult(Cur, k, r, v).members = members

\* C36: no two members of one room carry the same non-null
\* sessionIdentifier, after any sequence of HTTP joins and realtime
\* joins.
C36_OneMemberPerSession ==
  \A i, j \in DOMAIN members :
    (/\ i # j
     /\ members[i].room = members[j].room
     /\ members[i].sessionId # 0) =>
      members[i].sessionId # members[j].sessionId

\* C37: a connection whose room:join succeeded and which has not
\* disconnected stays resolvable as a member of the unexpired room: its
\* vote:submit is accepted, never answered with the not-a-member error,
\* whatever other connection has joined in between.
C37_JoinedConnectionCanVote ==
  \A k, other \in LiveSockets, r \in RoomIds :
    (k # other /\ RoomExists(rooms, r) /\ ~IsRoomExpired(rooms, r, now)) =>
      \A myName, theirName \in NameInputs, pt \in PointInputs :
        LET mine == JoinResult(Cur, k, r, myName, NoToken)
            theirs == JoinResult([mine EXCEPT !.out = <<>>], other, r, theirName, NoToken)
            vote == VoteResult([theirs EXCEPT !.out = <<>>], k, r, pt)
        IN (mine.out # <<>> /\ mine.out[1].typ = "room:joined") =>
             /\ vote.out[1].typ = "vote:updated"
             /\ vote.out[1].msg # NotAMemberText

\* C38: whenever room:joined reports isAdmin = true to a connection, a
\* votes:reveal, votes:reset or room:end sent afterwards by that same
\* connection on the still existing, unexpired room is authorized and
\* takes effect.
C38_ReportedAdminIsAuthorized ==
  \A k \in LiveSockets, r \in RoomIds :
    (RoomExists(rooms, r) /\ ~IsRoomExpired(rooms, r, now)) =>
      \A name \in NameInputs, tok \in Tokens :
        LET res == JoinResult(Cur, k, r, name, tok)
            after == [res EXCEPT !.out = <<>>]
        IN (res.out # <<>> /\ res.out[1].typ = "room:joined" /\ res.out[1].isAdmin) =>
             /\ RevealResult(after, k, r).out[1].typ = "votes:revealed"
             /\ ResetResult(after, k, r).out[1].typ = "votes:reset"
             /\ EndResult(after, k, r).out[1].typ = "room:ended"

\* The value of the most recent set(k, v) of the calls in log that no
\* del(k) or clear follows, null when there is none.
RECURSIVE LastSet(_, _)
LastSet(log, k) ==
  IF log = <<>> THEN Null
  ELSE LET e == log[Len(log)]
       IN IF e.op = "clear" \/ (e.op = "del" /\ e.key = k) THEN Null
          ELSE IF e.op = "set" /\ e.key = k THEN Str(e.value)
          ELSE LastSet(SubSeq(log, 1, Len(log) - 1), k)

\* C39: after any sequence of set, del and clear on the key-value store,
\* get(k) returns the value of the most recent set(k, v) not followed by
\* a del(k) or clear, and null otherwise; exists(k) is 1 exactly when
\* get(k) is not null (and 0 otherwise); del(k) returns 1 when k was
\* present and 0 when it was not.
C39_KvStoreSemantics ==
  \A k \in KvKeys :
    /\ GetValue(kv, k) = LastSet(kvLog, k)
    /\ ExistsValue(kv, k) = (IF GetValue(kv, k) # Null THEN 1 ELSE 0)
    /\ DelChanges(kv, k) = (IF LastSet(kvLog, k) # Null THEN 1 ELSE 0)

\* A key was set and set again to another value, then a key that is
\* absent was deleted and the del returned 0: get returns the second
\* value for the first key, which exists and whose del would return 1.
C39_Witness ==
  \E k \in KvKeys, j \in KvKeys :
    /\ j # k
    /\ Len(kvLog) = 3
    /\ kvLog[1].op = "set" /\ kvLog[1].key = k
    /\ kvLog[2].op = "set" /\ kvLog[2].key = k /\ kvLog[2].value # kvLog[1].value
    /\ kvLog[3].op = "del" /\ kvLog[3].key = j
    /\ kvRet = Num(0)
    /\ GetValue(kv, k) = Str(kvLog[2].value)
    /\ ExistsValue(kv, k) = 1
    /\ DelChanges(kv, k) = 1
    /\ GetValue(kv, j) = Null

====
